---- MODULE Spec2Model ----
(***************************************************************************)
(* Model of the paginated, cancellable listing streams of orijtech/infra:  *)
(* Client.ListZones, Client.ListInstances (infra.go) and                   *)
(* Client.ListDNSRecordSets (dns.go), with makeCanceler.                   *)
(*                                                                         *)
(* One stream is modelled: the caller invokes one of the three List calls  *)
(* with a request, the background goroutine fetches pages from the remote  *)
(* API, hands them to the consumer over the unbuffered pagesChan, and the  *)
(* consumer may invoke the returned Cancel function from several callers.  *)
(* TwoSpec adds a second stream, a ListInstances call made side by side    *)
(* with the first call; in Spec that second stream is never started.       *)
(*                                                                         *)
(* Further parts, each with its own variables and specification:           *)
(*   LockSpec   the bodies of the three loops as step functions, run on    *)
(*              one schedule of lister answers, receives and a Cancel      *)
(*   DedupSpec  dedup (dns.go) on lists of strings                         *)
(*   DnsSpec    UpdateRecordSets, AddRecordSets, DeleteRecordSets (dns.go) *)
(*   SetupSpec  the steps of Client.FullSetup (setup.go)                   *)
(*   PureSpec   single calls of Record.Validate (dns.go),                   *)
(*              MachineType.Validate and route, EnsureBucketExists and      *)
(*              UploadWithParams (storage.go)                               *)
(***************************************************************************)
EXTENDS Integers, Sequences, FiniteSets, TLC

(* ------------------------------ bounds --------------------------------- *)

\* largest number of pages of the remote collection
MaxCollection == 4

\* the consumer receives at most this many pages before it stops reading
MaxReceive == 5

\* largest MaxPages value a request carries
MaxMaxPages == 2

\* number of concurrent callers of the Cancel function
NumCallers == 2

\* total number of Cancel invocations
MaxCancelCalls == 3

(* ----------------------------- constants ------------------------------- *)

\* maxResultsPerPage := int64(40)
DefaultResultsPerPage == 40

\* a positive ResultsPerPage carried by a request
GivenResultsPerPage == 7

Nil == "nil"
errBlankProject == "expecting a non-blank project"
errBlankZone == "expecting a non-blank zone"
errEmptyProject == "expecting a non-empty project"
errEmptyZone == "expecting a non-empty zone"
errFetch == "remote fetch failed"

Kinds == {"ListZones", "ListInstances", "ListDNSRecordSets"}
Callers == 1..NumCallers

VARIABLES
    remote,             \* number of pages of the remote collection
    emptyPage,          \* the page of the remote collection that has no items
    kind,               \* which List call was made ("none" before the call)
    req,                \* the request passed to the List call
    callErr,            \* error returned by the List call ("pending" before)
    maxPageNumber,      \* maxPageNumber := req.MaxPages
    maxResultsPerPage,  \* resolved page size
    pc,                 \* position of the background goroutine
    pageToken,          \* the pageToken declared before the for loop
    innerPageToken,     \* the pageToken declared inside the loop body
    pageNumber,         \* the loop's page counter
    page,               \* the page built in this iteration (zpage/ipage/dPage)
    pagesChanCloses,    \* how many times pagesChan was closed
    exit,               \* which return statement ended the goroutine
    fetches,            \* log of remote fetches: token, page size, outcome
    pages,              \* pages received by the consumer, in order
    consumer,           \* "reading" or "stopped"
    cancelOnceDone,     \* sync.Once: f has run
    cancelOnceHolder,   \* sync.Once: caller holding its mutex (0 if free)
    cancelChanCloses,   \* how many times close(cancelChan) was executed
    cpc,                \* per caller: position inside the Cancel function
    cancelCalls,        \* number of Cancel invocations so far
    cancelReturns,      \* sequence of values returned by Cancel calls
    panicked,           \* a close of a closed channel panicked
    recvAtCancel,       \* pages received when cancelChan was closed (-1: not)
    \* a second stream, started concurrently by a call of ListInstances
    ipc,                \* position of its goroutine
    imaxPageNumber,     \* its maxPageNumber
    ipageToken,         \* its pageToken declared before the for loop
    iinnerPageToken,    \* its pageToken declared inside the loop body
    ipageNumber,        \* its page counter
    ipage,              \* the page built in its iteration (ipage)
    ilrNextPageToken,   \* NextPageToken of its last response (ilr)
    ipages,             \* pages received by its consumer, in order
    ipagesChanCloses,   \* how many times its pagesChan was closed
    iexit,              \* which return statement ended its goroutine
    icancelOnceDone,    \* the Once of its own makeCanceler call
    icancelChanCloses,  \* how many times its own cancelChan was closed
    ipassedCancelled,   \* it passed its select while the first stream's
                        \* cancelChan was closed
    throttleWaits,      \* how many times the timer case of the select ran
    \* the three loops run side by side on one schedule
    zst,                \* locals and events of the ListZones loop
    ist,                \* locals and events of the ListInstances loop
    dst,                \* locals and events of the ListDNSRecordSets loop
    \* a call of dedup
    items,              \* the arguments of dedup
    uniqRecords,        \* what dedup(items...) returned
    uniqAgain,          \* what dedup returned for its own result
    dpc,                \* "input", "deduped" or "again"
    \* a call of UpdateRecordSets, AddRecordSets or DeleteRecordSets
    dnsOp,              \* which of the three is called ("none" if none)
    ureq,               \* the *UpdateRequest passed to it
    dnsOut,             \* what it returned and what it sent to the remote
    dnsPc,              \* "idle", "input" or "done"
    \* a call of FullSetup
    setup,              \* the *Setup passed to FullSetup
    spc,                \* position inside FullSetup
    ipv4Addresses,      \* its local ipv4Addresses
    instance,           \* the instance held by generateMachineAndIPV4Addresses
    ireq,               \* the UpdateRequest generateRecordSets built
    dnsChange,          \* what AddRecordSets returned and sent
    steps,              \* the steps run so far, each with its error
    scalls,             \* the remote calls made so far, in order
    sresult,            \* what FullSetup returned
    \* a call of Record.Validate, MachineType.Validate and route,
    \* EnsureBucketExists or UploadWithParams
    callee,             \* which of them is called ("none" if none)
    callArg,            \* the receiver or argument of the call
    callOut,            \* what the call returned and which remote calls it made
    callPc              \* "idle", "input" or "done"

vars == <<remote, emptyPage, kind, req, callErr, maxPageNumber, maxResultsPerPage, pc,
          pageToken, innerPageToken, pageNumber, page, pagesChanCloses, exit,
          fetches, pages, consumer, cancelOnceDone, cancelOnceHolder,
          cancelChanCloses, cpc, cancelCalls, cancelReturns, panicked,
          recvAtCancel, ipc, imaxPageNumber, ipageToken, iinnerPageToken,
          ipageNumber, ipage, ilrNextPageToken, ipages, ipagesChanCloses,
          iexit, icancelOnceDone, icancelChanCloses, ipassedCancelled,
          throttleWaits, zst, ist, dst, items, uniqRecords, uniqAgain,
          dpc, dnsOp, ureq, dnsOut, dnsPc, setup, spc, ipv4Addresses,
          instance, ireq, dnsChange, steps, scalls, sresult, callee,
          callArg, callOut, callPc>>

\* the state of the second stream
instVars == <<ipc, imaxPageNumber, ipageToken, iinnerPageToken, ipageNumber,
              ipage, ilrNextPageToken, ipages, ipagesChanCloses, iexit,
              icancelOnceDone,
              icancelChanCloses, ipassedCancelled>>

loopVars == <<pc, pageToken, innerPageToken, pageNumber, page,
              pagesChanCloses, exit, fetches>>
\* what the steps of the goroutine, the consumer and Cancel leave alone
lockVars == <<zst, ist, dst>>
dedupVars == <<items, uniqRecords, uniqAgain, dpc>>
dnsVars == <<dnsOp, ureq, dnsOut, dnsPc>>
setupVars == <<setup, spc, ipv4Addresses, instance, ireq, dnsChange, steps,
               scalls, sresult>>
pureVars == <<callee, callArg, callOut, callPc>>
otherVars == <<instVars, lockVars, dedupVars, dnsVars, setupVars, pureVars>>
callVars == <<remote, emptyPage, kind, req, callErr, maxPageNumber,
              maxResultsPerPage, otherVars, throttleWaits>>
cancelVars == <<cancelOnceDone, cancelOnceHolder, cancelChanCloses, cpc,
                cancelCalls, cancelReturns, panicked, recvAtCancel>>

(* ------------------------------ requests ------------------------------- *)

NilReq == [isNil |-> TRUE]

\* ZoneRequest has no Zone field
ZoneRequests ==
    {NilReq} \cup
    [isNil : {FALSE}, Project : {"", "p"},
     MaxPages : -1..MaxMaxPages,
     ResultsPerPage : {-1, 0, GivenResultsPerPage}]

\* InstancesRequest and RecordSetRequest carry Project and Zone
ZonedRequests ==
    {NilReq} \cup
    [isNil : {FALSE}, Project : {"", "p"}, Zone : {"", "z"},
     MaxPages : -1..MaxMaxPages,
     ResultsPerPage : {-1, 0, GivenResultsPerPage}]

RequestsOf(k) == IF k = "ListZones" THEN ZoneRequests ELSE ZonedRequests

\* func (zreq *ZoneRequest) Validate() error
ZoneRequestValidate(r) ==
    IF r.isNil \/ r.Project = "" THEN errBlankProject ELSE Nil

\* the Project of the request is not checked
InstancesRequestValidate_noProject(r) ==
    IF r.isNil \/ r.Zone = "" THEN errBlankZone ELSE Nil

\* func (ireq *InstancesRequest) Validate() error
InstancesRequestValidate(r) ==
    IF r.isNil \/ r.Zone = "" THEN errBlankZone
    ELSE IF r.Project = "" THEN errBlankProject
    ELSE Nil

\* func (rreq *RecordSetRequest) Validate() error
RecordSetRequestValidate(r) ==
    IF r.isNil \/ r.Project = "" THEN errEmptyProject
    ELSE IF r.Zone = "" THEN errEmptyZone
    ELSE Nil

Validate(k, r) ==
    CASE k = "ListZones" -> ZoneRequestValidate(r)
      [] k = "ListInstances" -> InstancesRequestValidate(r)
      [] k = "ListDNSRecordSets" -> RecordSetRequestValidate(r)

\* a negative ResultsPerPage is taken as the page size
ResolveResultsPerPage_nonzero(r) ==
    IF r.ResultsPerPage # 0 THEN r.ResultsPerPage ELSE DefaultResultsPerPage

\* maxResultsPerPage := int64(40); if req.ResultsPerPage > 0 { ... }
ResolveResultsPerPage(r) ==
    IF r.ResultsPerPage > 0 THEN r.ResultsPerPage ELSE DefaultResultsPerPage

\* the bound is compared one page late
pageExceedsMax_late(pn) ==
    IF maxPageNumber <= 0 THEN FALSE ELSE pn > maxPageNumber + 1

\* pageExceedsMax := func(pageNumber int64) bool
pageExceedsMax(pn) ==
    IF maxPageNumber <= 0 THEN FALSE ELSE pn > maxPageNumber

(* --------------------------- the remote API ---------------------------- *)
\* The remote collection has `remote` pages.  The page after the empty token
\* is page 1; page i < remote returns the continuation token ToString(i),
\* the last page returns the empty token.  One page has no items: the third
\* (pages [a,b], [c], []) or the first.  The collection is what the lister
\* is asked for; a response carries whatever NextPageToken the remote put
\* into it (NextPageTokens), which need not be the token of the collection.

RemoteItems(i) ==
    CASE i = emptyPage -> <<>>
      [] i = 1 -> <<"a", "b">>
      [] i = 2 -> <<"c">>
      [] OTHER -> <<ToString(i)>>

RemoteNextToken(i) == IF i >= remote THEN "" ELSE ToString(i)

RemoteIndex(token) ==
    IF token = "" THEN 1
    ELSE 1 + CHOOSE i \in 1..remote : ToString(i) = token

\* zlr.NextPageToken of the response to the request for page i: the empty
\* token or the token of a following page
NextPageTokens(i) == {"", ToString(i)}

(* ------------------------------- Init ---------------------------------- *)

NoPage == [PageNumber |-> 0, Err |-> Nil, Items |-> <<>>]

\* a loop that has not been started
LoopIdle ==
    [pc |-> "idle", maxPageNumber |-> 0, pageToken |-> "",
     innerPageToken |-> "", pageNumber |-> 0, next |-> "",
     cancelled |-> FALSE, events |-> <<>>]

\* dedup has not been called
DedupIdle ==
    /\ items = <<>>
    /\ uniqRecords = <<>>
    /\ uniqAgain = <<>>
    /\ dpc = "idle"

\* var ureq *UpdateRequest = nil
NilUpdateRequest ==
    [isNil |-> TRUE, Zone |-> <<>>, Project |-> <<>>, Records |-> <<>>,
     Additions |-> <<>>, Deletions |-> <<>>]

\* a nil *dns.Change
NoChange == [Additions |-> <<>>, Deletions |-> <<>>]

\* nothing was returned and nothing was sent
NoDnsOut == [err |-> Nil, change |-> NoChange, created |-> 0, sent |-> NoChange]

\* none of the three DNS update calls has been made
DnsIdle ==
    /\ dnsOp = "none"
    /\ ureq = NilUpdateRequest
    /\ dnsOut = NoDnsOut
    /\ dnsPc = "idle"

\* var req *Setup = nil
NilSetup ==
    [isNil |-> TRUE, Project |-> <<>>, Zone |-> <<>>, MachineName |-> <<>>,
     DomainName |-> <<>>, IPV4Addresses |-> <<>>, Aliases |-> <<>>,
     ProxyAddress |-> <<>>]

\* a nil *compute.Instance
NilInstance == [isNil |-> TRUE, NetworkIPs |-> <<>>]

\* a nil *SetupResponse and a nil error
NoSetupResult == [resp |-> FALSE, err |-> Nil]

\* FullSetup has not been called
SetupIdle ==
    /\ setup = NilSetup
    /\ spc = "idle"
    /\ ipv4Addresses = <<>>
    /\ instance = NilInstance
    /\ ireq = NilUpdateRequest
    /\ dnsChange = NoDnsOut
    /\ steps = <<>>
    /\ scalls = <<>>
    /\ sresult = NoSetupResult

\* none of the single calls has been made
PureIdle ==
    /\ callee = "none"
    /\ callArg = <<>>
    /\ callOut = <<>>
    /\ callPc = "idle"

\* no List call has been made and no loop runs
ListInit ==
    /\ remote \in 1..MaxCollection
    /\ emptyPage \in {1, 3}
    /\ kind = "none"
    /\ req = NilReq
    /\ callErr = "pending"
    /\ maxPageNumber = 0
    /\ maxResultsPerPage = 0
    /\ pc = "idle"
    /\ pageToken = ""
    /\ innerPageToken = ""
    /\ pageNumber = 0
    /\ page = NoPage
    /\ pagesChanCloses = 0
    /\ exit = "none"
    /\ fetches = <<>>
    /\ pages = <<>>
    /\ consumer = "reading"
    /\ cancelOnceDone = FALSE
    /\ cancelOnceHolder = 0
    /\ cancelChanCloses = 0
    /\ cpc = [c \in Callers |-> "idle"]
    /\ cancelCalls = 0
    /\ cancelReturns = <<>>
    /\ panicked = FALSE
    /\ recvAtCancel = -1
    /\ ipc = "idle"
    /\ imaxPageNumber = 0
    /\ ipageToken = ""
    /\ iinnerPageToken = ""
    /\ ipageNumber = 0
    /\ ipage = NoPage
    /\ ilrNextPageToken = ""
    /\ ipages = <<>>
    /\ ipagesChanCloses = 0
    /\ iexit = "none"
    /\ icancelOnceDone = FALSE
    /\ icancelChanCloses = 0
    /\ ipassedCancelled = FALSE
    /\ throttleWaits = 0
    /\ zst = LoopIdle
    /\ ist = LoopIdle
    /\ dst = LoopIdle

Init ==
    /\ ListInit
    /\ DedupIdle
    /\ DnsIdle
    /\ SetupIdle
    /\ PureIdle

(* ----------------------------- List call -------------------------------- *)

\* ListZones / ListInstances / ListDNSRecordSets up to the go statement:
\* validation, resolution of the page bound and page size, makeCanceler,
\* make(chan), start of the goroutine with pageToken "" and pageNumber 0.
ListCall(k, r) ==
    /\ kind = "none"
    /\ kind' = k
    /\ req' = r
    /\ callErr' = Validate(k, r)
    /\ IF Validate(k, r) # Nil
       THEN UNCHANGED <<maxPageNumber, maxResultsPerPage, pc, pageToken,
                        pageNumber>>
       ELSE /\ maxPageNumber' = r.MaxPages
            /\ maxResultsPerPage' = ResolveResultsPerPage(r)
            /\ pc' = "fetch"
            /\ pageToken' = ""
            /\ pageNumber' = 0
    /\ UNCHANGED <<remote, emptyPage, innerPageToken, page, pagesChanCloses, exit,
                   fetches, pages, consumer>>
    /\ UNCHANGED cancelVars
    /\ UNCHANGED <<otherVars, throttleWaits>>

(* ------------------------- background goroutine ------------------------ *)

\* a return that leaves pagesChan open
Return_noClose(reason) ==
    /\ pc' = "done"
    /\ exit' = reason
    /\ UNCHANGED pagesChanCloses

\* defer close(pagesChan), run by every return of the goroutine
Return(reason) ==
    /\ pc' = "done"
    /\ exit' = reason
    /\ pagesChanCloses' = pagesChanCloses + 1

\* the new page already carries an error
NewPage_err == [PageNumber |-> pageNumber, Err |-> errFetch, Items |-> <<>>]

\* zpage := new(ZonePage); zpage.PageNumber = pageNumber
NewPage == [PageNumber |-> pageNumber, Err |-> Nil, Items |-> <<>>]

\* the error is not copied into the page
ErrPage_noErr == NewPage

\* if err != nil { zpage.Err = err
ErrPage == [NewPage EXCEPT !.Err = errFetch]

\* zlc.PageToken(pageToken); zlr, err := zlc.Do() with err == nil;
\* zpage.Zones = zlr.Items
FetchOK ==
    /\ pc = "fetch"
    /\ LET i == RemoteIndex(pageToken) IN
       /\ \E next \in NextPageTokens(i) :
             fetches' = Append(fetches, [token |-> pageToken,
                                         pageSize |-> maxResultsPerPage,
                                         ok |-> TRUE,
                                         items |-> RemoteItems(i),
                                         next |-> next])
       /\ page' = [NewPage EXCEPT !.Items = RemoteItems(i)]
    /\ pc' = "send"
    /\ UNCHANGED <<pageToken, innerPageToken, pageNumber, pagesChanCloses,
                   exit, pages, consumer>>
    /\ UNCHANGED callVars
    /\ UNCHANGED cancelVars

\* a failed fetch is tried again
FetchFail_retry ==
    /\ pc = "fetch"
    /\ fetches' = Append(fetches, [token |-> pageToken,
                                   pageSize |-> maxResultsPerPage,
                                   ok |-> FALSE,
                                   items |-> <<>>,
                                   next |-> ""])
    /\ UNCHANGED <<pc, page>>
    /\ UNCHANGED <<pageToken, innerPageToken, pageNumber, pagesChanCloses,
                   exit, pages, consumer>>
    /\ UNCHANGED callVars
    /\ UNCHANGED cancelVars

\* zlc.PageToken(pageToken); zlr, err := zlc.Do() with err != nil;
\* zpage.Err = err
FetchFail ==
    /\ pc = "fetch"
    /\ fetches' = Append(fetches, [token |-> pageToken,
                                   pageSize |-> maxResultsPerPage,
                                   ok |-> FALSE,
                                   items |-> <<>>,
                                   next |-> ""])
    /\ page' = ErrPage
    /\ pc' = "sendErr"
    /\ UNCHANGED <<pageToken, innerPageToken, pageNumber, pagesChanCloses,
                   exit, pages, consumer>>
    /\ UNCHANGED callVars
    /\ UNCHANGED cancelVars

\* the consumer is at its receive on the unbuffered pagesChan
ConsumerReady == consumer = "reading"

\* the consumer's side of the handoff: it receives p, and stops reading
\* once it has received MaxReceive pages
Receive(p) ==
    /\ pages' = Append(pages, p)
    /\ consumer' = IF Len(pages) + 1 >= MaxReceive THEN "stopped" ELSE consumer

\* pagesChan has a buffer: the send returns before the consumer receives
Handoff_buffered(p) == UNCHANGED <<pages, consumer>>

\* pagesChan <- p on the unbuffered pagesChan := make(chan *ZonePage): the
\* send returns when the consumer has received p
Handoff(p) == ConsumerReady /\ Receive(p)

\* the loop goes on to the throttle after the error page
AfterErrPage_continue ==
    /\ pc' = "throttle"
    /\ UNCHANGED <<exit, pagesChanCloses>>

\* the return that follows the send of the error page
AfterErrPage == Return("error")

\* pagesChan <- zpage; return       (the error branch)
SendErrPage ==
    /\ pc = "sendErr"
    /\ Handoff(page)
    /\ AfterErrPage
    /\ UNCHANGED <<pageToken, innerPageToken, pageNumber, page, fetches>>
    /\ UNCHANGED callVars
    /\ UNCHANGED cancelVars

\* the counter is not advanced
IncrPageNumber_stuck(pn) == pn

\* pageNumber += 1
IncrPageNumber(pn) == pn + 1

\* a page without items ends the stream
SendPage_stopOnEmpty ==
    /\ pc = "send"
    /\ Handoff(page)
    /\ pageNumber' = IncrPageNumber(pageNumber)
    /\ IF page.Items = <<>> \/ pageExceedsMax(IncrPageNumber(pageNumber))
       THEN /\ Return("max")
            /\ UNCHANGED innerPageToken
       ELSE /\ innerPageToken' = fetches[Len(fetches)].next
            /\ pc' = "throttle"
            /\ UNCHANGED <<exit, pagesChanCloses>>
    /\ UNCHANGED <<pageToken, page, fetches>>
    /\ UNCHANGED callVars
    /\ UNCHANGED cancelVars

\* pagesChan <- zpage; pageNumber += 1; if pageExceedsMax(pageNumber)
\* { return }; pageToken := zlr.NextPageToken
SendPage ==
    /\ pc = "send"
    /\ Handoff(page)
    /\ pageNumber' = IncrPageNumber(pageNumber)
    /\ IF pageExceedsMax(IncrPageNumber(pageNumber))
       THEN /\ Return("max")
            /\ UNCHANGED innerPageToken
       ELSE /\ innerPageToken' = fetches[Len(fetches)].next
            /\ pc' = "throttle"
            /\ UNCHANGED <<exit, pagesChanCloses>>
    /\ UNCHANGED <<pageToken, page, fetches>>
    /\ UNCHANGED callVars
    /\ UNCHANGED cancelVars

\* the select never takes the cancelChan case
CancelObserved_never == FALSE

\* case <-cancelChan: a receive from cancelChan succeeds once it is closed
\* (nothing is ever sent on it)
CancelObserved == cancelChanCloses >= 1

\* cancelChan is also read while the page waits to be sent
AtCancelCheckpoint_send == pc \in {"send", "throttle"}

\* the only receive from cancelChan is the select that follows the send
AtCancelCheckpoint == pc = "throttle"

\* the cancelChan case falls through to the next iteration
ThrottleCancel_continue ==
    /\ AtCancelCheckpoint
    /\ CancelObserved
    /\ pc' = "fetch"
    /\ UNCHANGED <<exit, pagesChanCloses>>
    /\ UNCHANGED <<pageToken, innerPageToken, pageNumber, page, fetches,
                   pages, consumer>>
    /\ UNCHANGED callVars
    /\ UNCHANGED cancelVars

\* select { case <-cancelChan: return ... }
ThrottleCancel ==
    /\ AtCancelCheckpoint
    /\ CancelObserved
    /\ Return("cancel")
    /\ UNCHANGED <<pageToken, innerPageToken, pageNumber, page, fetches,
                   pages, consumer>>
    /\ UNCHANGED callVars
    /\ UNCHANGED cancelVars

\* the loop body's pageToken is not tested after the select
ThrottleTimeout_noBreak ==
    /\ pc = "throttle"
    /\ ~CancelObserved
    /\ throttleWaits' = throttleWaits + 1
    /\ pc' = "fetch"
    /\ UNCHANGED <<exit, pagesChanCloses>>
    /\ UNCHANGED <<pageToken, innerPageToken, pageNumber, page, fetches,
                   pages, consumer>>
    /\ UNCHANGED <<remote, emptyPage, kind, req, callErr, maxPageNumber,
                   maxResultsPerPage, otherVars>>
    /\ UNCHANGED cancelVars

\* select { ... case <-time.After(throttleDuration): }
\* if pageToken == "" { break }     (the pageToken of the loop body)
\* The timer is created when the select is entered, so it fires only when
\* cancelChan was not closed before.
ThrottleTimeout ==
    /\ pc = "throttle"
    /\ ~CancelObserved
    /\ throttleWaits' = throttleWaits + 1
    /\ IF innerPageToken = ""
       THEN Return("end")
       ELSE /\ pc' = "fetch"
            /\ UNCHANGED <<exit, pagesChanCloses>>
    /\ UNCHANGED <<pageToken, innerPageToken, pageNumber, page, fetches,
                   pages, consumer>>
    /\ UNCHANGED <<remote, emptyPage, kind, req, callErr, maxPageNumber,
                   maxResultsPerPage, otherVars>>
    /\ UNCHANGED cancelVars

(* ------------------------------ consumer ------------------------------- *)

\* the consumer leaves its range loop over Pages and reads no more
ConsumerStop ==
    /\ callErr = Nil
    /\ consumer = "reading"
    /\ consumer' = "stopped"
    /\ UNCHANGED <<pages>>
    /\ UNCHANGED loopVars
    /\ UNCHANGED callVars
    /\ UNCHANGED cancelVars

(* ---------------------------- makeCanceler ----------------------------- *)

\* the Once runs its function on every call
OnceDone_never == FALSE

\* cancelOnce.Do: the function runs only when the Once is not done yet
OnceDone == cancelOnceDone

\* return err     (err is never assigned: nil)
CancelReturn(c) ==
    /\ cancelReturns' = Append(cancelReturns, Nil)
    /\ cpc' = [cpc EXCEPT ![c] = "idle"]

\* cancel(): cancelOnce.Do(...) is entered.  A caller that finds the Once
\* done returns at once; otherwise it takes the Once's mutex or waits for it.
CancelEnter(c) ==
    /\ callErr = Nil
    /\ cpc[c] = "idle"
    /\ cancelCalls < MaxCancelCalls
    /\ cancelCalls' = cancelCalls + 1
    /\ IF OnceDone
       THEN /\ CancelReturn(c)
            /\ UNCHANGED cancelOnceHolder
       ELSE IF cancelOnceHolder = 0
       THEN /\ cancelOnceHolder' = c
            /\ cpc' = [cpc EXCEPT ![c] = "closing"]
            /\ UNCHANGED cancelReturns
       ELSE /\ cpc' = [cpc EXCEPT ![c] = "waiting"]
            /\ UNCHANGED <<cancelReturns, cancelOnceHolder>>
    /\ UNCHANGED <<cancelOnceDone, cancelChanCloses, panicked, recvAtCancel>>
    /\ UNCHANGED <<pages, consumer>>
    /\ UNCHANGED loopVars
    /\ UNCHANGED callVars

\* a caller that waited for the Once's mutex gets it and checks done again
CancelAcquire(c) ==
    /\ cpc[c] = "waiting"
    /\ cancelOnceHolder = 0
    /\ IF OnceDone
       THEN /\ CancelReturn(c)
            /\ UNCHANGED cancelOnceHolder
       ELSE /\ cancelOnceHolder' = c
            /\ cpc' = [cpc EXCEPT ![c] = "closing"]
            /\ UNCHANGED cancelReturns
    /\ UNCHANGED <<cancelOnceDone, cancelChanCloses, panicked, recvAtCancel,
                   cancelCalls>>
    /\ UNCHANGED <<pages, consumer>>
    /\ UNCHANGED loopVars
    /\ UNCHANGED callVars

\* cancel closes pagesChan as well
CancelClose_closesPages(c) ==
    /\ cpc[c] = "closing"
    /\ cancelChanCloses' = cancelChanCloses + 1
    /\ panicked' = (panicked \/ cancelChanCloses >= 1 \/ pagesChanCloses >= 1)
    /\ pagesChanCloses' = pagesChanCloses + 1
    /\ recvAtCancel' = IF recvAtCancel = -1 THEN Len(pages) ELSE recvAtCancel
    /\ cancelOnceDone' = TRUE
    /\ cancelOnceHolder' = 0
    /\ CancelReturn(c)
    /\ UNCHANGED cancelCalls
    /\ UNCHANGED <<pages, consumer>>
    /\ UNCHANGED <<pc, pageToken, innerPageToken, pageNumber, page, exit,
                   fetches>>
    /\ UNCHANGED callVars

\* func() { close(cancelChan) } run by the Once, which then marks itself
\* done and releases its mutex; cancel returns err.  Closing a closed
\* channel panics.
CancelClose(c) ==
    /\ cpc[c] = "closing"
    /\ cancelChanCloses' = cancelChanCloses + 1
    /\ panicked' = (panicked \/ cancelChanCloses >= 1)
    /\ recvAtCancel' = IF recvAtCancel = -1 THEN Len(pages) ELSE recvAtCancel
    /\ cancelOnceDone' = TRUE
    /\ cancelOnceHolder' = 0
    /\ CancelReturn(c)
    /\ UNCHANGED cancelCalls
    /\ UNCHANGED <<pages, consumer>>
    /\ UNCHANGED loopVars
    /\ UNCHANGED callVars

(* ------------------ a second, concurrent stream ------------------------ *)
\* A call of ListInstances made next to the first List call, with its own
\* makeCanceler, pagesChan, pageToken and pageNumber.  Its request is valid
\* and its collection has as many pages as the first stream's.

\* largest MaxPages of the second stream's request
MaxInstMaxPages == 1

\* its consumer receives at most this many pages
MaxInstReceive == 3

firstVars == <<remote, emptyPage, kind, req, callErr, maxPageNumber,
               maxResultsPerPage, loopVars, pages, consumer, cancelVars,
               throttleWaits, lockVars, dedupVars, dnsVars, setupVars,
               pureVars>>

\* ListInstances up to the go statement, for a request that passes Validate
ListInstancesCall(m) ==
    /\ ipc = "idle"
    /\ imaxPageNumber' = m
    /\ ipc' = "fetch"
    /\ ipageToken' = ""
    /\ ipageNumber' = 0
    /\ UNCHANGED <<iinnerPageToken, ipage, ilrNextPageToken, ipages,
                   ipagesChanCloses, iexit, icancelOnceDone,
                   icancelChanCloses, ipassedCancelled>>
    /\ UNCHANGED firstVars

\* pageExceedsMax of ListInstances
ipageExceedsMax(pn) ==
    IF imaxPageNumber <= 0 THEN FALSE ELSE pn > imaxPageNumber

\* defer close(pagesChan) of ListInstances
IReturn(reason) ==
    /\ ipc' = "done"
    /\ iexit' = reason
    /\ ipagesChanCloses' = ipagesChanCloses + 1

\* ilc.PageToken(pageToken); ipage := new(InstancePage);
\* ipage.PageNumber = pageNumber; ilr, err := ilc.Do() with err == nil;
\* ipage.Instances = ilr.Items
IFetchOK ==
    /\ ipc = "fetch"
    /\ LET i == RemoteIndex(ipageToken) IN
       /\ ipage' = [PageNumber |-> ipageNumber, Err |-> Nil,
                    Items |-> RemoteItems(i)]
       /\ ilrNextPageToken' \in NextPageTokens(i)
    /\ ipc' = "send"
    /\ UNCHANGED <<imaxPageNumber, ipageToken, iinnerPageToken, ipageNumber,
                   ipages, ipagesChanCloses, iexit, icancelOnceDone,
                   icancelChanCloses, ipassedCancelled>>
    /\ UNCHANGED firstVars

\* ilr, err := ilc.Do() with err != nil; ipage.Err = err
IFetchFail ==
    /\ ipc = "fetch"
    /\ ipage' = [PageNumber |-> ipageNumber, Err |-> errFetch,
                 Items |-> <<>>]
    /\ ipc' = "sendErr"
    /\ UNCHANGED <<imaxPageNumber, ipageToken, iinnerPageToken, ipageNumber,
                   ilrNextPageToken, ipages, ipagesChanCloses, iexit,
                   icancelOnceDone, icancelChanCloses, ipassedCancelled>>
    /\ UNCHANGED firstVars

\* the second consumer is at its receive
IConsumerReady == Len(ipages) < MaxInstReceive

\* pagesChan <- ipage; return       (the error branch)
ISendErrPage ==
    /\ ipc = "sendErr"
    /\ IConsumerReady
    /\ ipages' = Append(ipages, ipage)
    /\ IReturn("error")
    /\ UNCHANGED <<imaxPageNumber, ipageToken, iinnerPageToken, ipageNumber,
                   ipage, ilrNextPageToken, icancelOnceDone,
                   icancelChanCloses, ipassedCancelled>>
    /\ UNCHANGED firstVars

\* pagesChan <- ipage; pageNumber += 1; if pageExceedsMax(pageNumber)
\* { return }; pageToken := ilr.NextPageToken
ISendPage ==
    /\ ipc = "send"
    /\ IConsumerReady
    /\ ipages' = Append(ipages, ipage)
    /\ ipageNumber' = ipageNumber + 1
    /\ IF ipageExceedsMax(ipageNumber + 1)
       THEN /\ IReturn("max")
            /\ UNCHANGED iinnerPageToken
       ELSE /\ iinnerPageToken' = ilrNextPageToken
            /\ ipc' = "throttle"
            /\ UNCHANGED <<iexit, ipagesChanCloses>>
    /\ UNCHANGED <<imaxPageNumber, ipageToken, ipage, ilrNextPageToken,
                   icancelOnceDone, icancelChanCloses, ipassedCancelled>>
    /\ UNCHANGED firstVars

\* both streams wait on one cancelChan
ICancelObserved_shared == cancelChanCloses >= 1 \/ icancelChanCloses >= 1

\* case <-cancelChan of ListInstances: the channel returned by its own
\* makeCanceler call
ICancelObserved == icancelChanCloses >= 1

\* select { case <-cancelChan: return ... }
IThrottleCancel ==
    /\ ipc = "throttle"
    /\ ICancelObserved
    /\ IReturn("cancel")
    /\ UNCHANGED <<imaxPageNumber, ipageToken, iinnerPageToken, ipageNumber,
                   ipage, ilrNextPageToken, ipages, icancelOnceDone,
                   icancelChanCloses, ipassedCancelled>>
    /\ UNCHANGED firstVars

\* select { ... case <-time.After(throttleDuration): }
\* if pageToken == "" { break }
IThrottleTimeout ==
    /\ ipc = "throttle"
    /\ ~ICancelObserved
    /\ IF iinnerPageToken = ""
       THEN IReturn("end")
       ELSE /\ ipc' = "fetch"
            /\ UNCHANGED <<iexit, ipagesChanCloses>>
    /\ ipassedCancelled' = (ipassedCancelled \/ cancelChanCloses >= 1)
    /\ UNCHANGED <<imaxPageNumber, ipageToken, iinnerPageToken, ipageNumber,
                   ipage, ilrNextPageToken, ipages, icancelOnceDone,
                   icancelChanCloses>>
    /\ UNCHANGED firstVars

\* the Cancel function of the second stream, called by one caller:
\* cancelOnce.Do(func() { close(cancelChan) })
ICancel ==
    /\ ipc # "idle"
    /\ ~icancelOnceDone
    /\ icancelOnceDone' = TRUE
    /\ icancelChanCloses' = icancelChanCloses + 1
    /\ UNCHANGED <<ipc, imaxPageNumber, ipageToken, iinnerPageToken,
                   ipageNumber, ipage, ilrNextPageToken, ipages,
                   ipagesChanCloses, iexit, ipassedCancelled>>
    /\ UNCHANGED firstVars

(* --------------------------- specification ----------------------------- *)

Next ==
    \/ \E k \in Kinds : \E r \in RequestsOf(k) : ListCall(k, r)
    \/ FetchOK
    \/ FetchFail
    \/ SendErrPage
    \/ SendPage
    \/ ThrottleCancel
    \/ ThrottleTimeout
    \/ ConsumerStop
    \/ \E c \in Callers : CancelEnter(c)
    \/ \E c \in Callers : CancelAcquire(c)
    \/ \E c \in Callers : CancelClose(c)

Spec == Init /\ [][Next]_vars

\* requests of the first stream when two streams run
TwoStreamRequests ==
    [isNil : {FALSE}, Project : {"p"}, MaxPages : {0, 1},
     ResultsPerPage : {0}]

\* ListZones and ListInstances started side by side, each with one consumer
\* and one caller of its Cancel function
TwoNext ==
    \/ \E r \in TwoStreamRequests : ListCall("ListZones", r)
    \/ FetchOK
    \/ FetchFail
    \/ SendErrPage
    \/ SendPage
    \/ ThrottleCancel
    \/ ThrottleTimeout
    \/ ConsumerStop
    \/ CancelEnter(1)
    \/ CancelClose(1)
    \/ \E m \in 0..MaxInstMaxPages : ListInstancesCall(m)
    \/ IFetchOK
    \/ IFetchFail
    \/ ISendErrPage
    \/ ISendPage
    \/ IThrottleCancel
    \/ IThrottleTimeout
    \/ ICancel

TwoSpec == Init /\ [][TwoNext]_vars

\* Every remote fetch completes, a page is handed over whenever the consumer
\* is at its receive, the select returns, and a Cancel call runs to its end.
\* Nothing forces the consumer to keep reading or anyone to call Cancel.
FairSpec ==
    /\ Spec
    /\ WF_vars(FetchOK \/ FetchFail)
    /\ WF_vars(SendErrPage)
    /\ WF_vars(SendPage)
    /\ WF_vars(ThrottleCancel)
    /\ WF_vars(ThrottleTimeout)
    /\ \A c \in Callers : WF_vars(CancelAcquire(c))
    /\ \A c \in Callers : WF_vars(CancelClose(c))

TypeOK ==
    /\ pc \in {"idle", "fetch", "send", "sendErr", "throttle", "done"}
    /\ pageNumber \in 0..MaxReceive
    /\ consumer \in {"reading", "stopped"}
    /\ Len(pages) <= MaxReceive

(* ------------------------------ properties ----------------------------- *)

Started == callErr = Nil
NoFetchFailed == \A n \in 1..Len(fetches) : fetches[n].ok

\* the lister has answered every request with the page and the continuation
\* token of the collection of `remote` pages
CollectionServed ==
    \A n \in 1..Len(fetches) :
        fetches[n].ok =>
            fetches[n].next = RemoteNextToken(RemoteIndex(fetches[n].token))
PageNumbersFrom0(k) ==
    /\ Len(pages) = k
    /\ \A i \in 1..k : pages[i].PageNumber = i - 1 /\ pages[i].Err = Nil

\* C1: once cancelFn has been invoked on a stream, the background loop
\* eventually terminates and closes pagesChan, whatever the consumer does
\* (also when it stops reading), provided every remote fetch completes.
C1_CancelLeadsToClose ==
    (cancelCalls >= 1) ~> (pc = "done" /\ pagesChanCloses = 1)

\* C2: the page token sent with the first fetch is empty and the token sent
\* with fetch n+1 is the next-page token returned by fetch n.
C2_TokenThreaded ==
    \A n \in 1..Len(fetches) :
        fetches[n].token = IF n = 1 THEN "" ELSE fetches[n - 1].next

\* C3: with MaxPages = m > 0 and a collection of more than m pages the
\* stream never emits more than m pages, and when it has closed without a
\* failed fetch or a cancellation it has emitted exactly pages 0..m-1.
C3_ExactlyMaxPages ==
    (Started /\ maxPageNumber > 0 /\ remote > maxPageNumber /\ NoFetchFailed
     /\ CollectionServed)
    => /\ Len(pages) <= maxPageNumber
       /\ (pc = "done" /\ cancelChanCloses = 0)
              => PageNumbersFrom0(maxPageNumber)

\* C4: with MaxPages = 0, no cancellation and no failed fetch, a collection
\* of k pages yields never more than k pages, and when the stream has closed
\* it has emitted exactly pages 0..k-1, none with an error.
C4_ExactlyCollection ==
    (Started /\ maxPageNumber = 0 /\ cancelCalls = 0 /\ NoFetchFailed
     /\ CollectionServed)
    => /\ Len(pages) <= remote
       /\ pc = "done" => PageNumbersFrom0(remote)

\* the page built for a fetch that failed when the counter was n
FailurePage(n) == [PageNumber |-> n, Err |-> errFetch, Items |-> <<>>]

\* C5: a failed fetch yields one page that carries the failure, no items
\* and the current counter (the number of pages delivered before); it is
\* the last page and the stream closes after it.  When the first fetch
\* fails this is exactly one page, numbered 0.
C5_FailedFetchPage ==
    \A n \in 1..Len(fetches) :
        ~fetches[n].ok =>
            /\ Len(pages) \in {n - 1, n}
            /\ Len(pages) = n - 1 =>
                   pc = "sendErr" /\ page = FailurePage(n - 1)
            /\ Len(pages) = n =>
                   /\ pages[n] = FailurePage(n - 1)
                   /\ pc = "done"
                   /\ pagesChanCloses = 1

\* the first fetch failed and its page was delivered
C5_Witness ==
    /\ Len(fetches) = 1
    /\ ~fetches[1].ok
    /\ Len(pages) = 1
    /\ pages[1].Err # Nil
    /\ pc = "done"

\* C6: a page carrying an error is the last page of its stream: once it has
\* been emitted the loop has terminated, the stream is closed and no page
\* follows.
C6_ErrorPageIsLast ==
    \A i \in 1..Len(pages) :
        pages[i].Err # Nil =>
            i = Len(pages) /\ pc = "done" /\ pagesChanCloses = 1

\* an error page was emitted after two good pages
C6_Witness ==
    /\ Len(pages) = 3
    /\ pages[3].Err # Nil
    /\ pages[2].Err = Nil

\* C7: the page numbers of the emitted pages are 0, 1, 2, ... in emission
\* order.
C7_PageNumbersSequential ==
    \A i \in 1..Len(pages) : pages[i].PageNumber = i - 1

\* four pages were emitted and the loop was then cancelled
C7_Witness ==
    /\ Len(pages) = 4
    /\ pages[4].PageNumber = 3
    /\ exit = "cancel"

C8_Inv ==
    /\ pagesChanCloses <= 1
    /\ pagesChanCloses = 1 <=> pc = "done"
    /\ pc = "done" <=> exit \in {"error", "max", "cancel", "end"}

\* C8: pagesChan is closed at most once, it is closed exactly when the
\* background loop has terminated (by any of its four exits), and no page
\* is sent after the close.
C8_ClosedOnceOnExit ==
    /\ []C8_Inv
    /\ [][pagesChanCloses >= 1 => pages' = pages]_vars

\* the loop left through the end of the collection and closed the channel
C8_Witness ==
    /\ exit = "end"
    /\ pagesChanCloses = 1
    /\ Len(pages) >= 1

\* C9: cancelFn may be called any number of times by concurrent callers:
\* cancelChan is closed by the first call only, nothing panics, every call
\* returns nil, and a caller waits only for a call that is about to finish.
C9_CancelIdempotent ==
    /\ cancelChanCloses <= 1
    /\ ~panicked
    /\ \A i \in 1..Len(cancelReturns) : cancelReturns[i] = Nil
    /\ Len(cancelReturns) >= 1 => cancelChanCloses = 1
    /\ \A c \in Callers :
           cpc[c] = "waiting" /\ cancelOnceHolder # 0
               => cpc[cancelOnceHolder] = "closing"

\* three calls have returned, one of them made while another was running
C9_Witness ==
    /\ Len(cancelReturns) = 3
    /\ cancelChanCloses = 1
    /\ cancelCalls = 3

\* a Cancel call made after cancelChan was closed
C10_LaterCancelStep ==
    cancelChanCloses >= 1 /\ cancelCalls' # cancelCalls

\* C10: when cancelChan is closed while the consumer has received pages
\* 0..n, at most one further page (n+1) is delivered, the pages delivered
\* afterwards carry an error only for a failed fetch, and a later Cancel
\* call changes nothing of the stream.
C10_CancelWhileDraining ==
    /\ [](recvAtCancel # -1 =>
             /\ Len(pages) <= recvAtCancel + 1
             /\ \A i \in 1..Len(pages) :
                    pages[i].Err # Nil => ~fetches[i].ok)
    /\ [][C10_LaterCancelStep =>
             UNCHANGED <<loopVars, pages, consumer, cancelChanCloses,
                         panicked>>]_vars

\* Cancel was called while the consumer held page 2 of a longer collection,
\* page 3 was still delivered, the loop stopped, and Cancel was called again
C10_Witness ==
    /\ recvAtCancel = 3
    /\ remote >= 4
    /\ Len(pages) = 4
    /\ exit = "cancel"
    /\ Len(cancelReturns) >= 2

C11_Inv ==
    /\ pc = "throttle" =>
           /\ Len(pages) = Len(fetches)
           /\ pages[Len(pages)] = [PageNumber |-> Len(pages) - 1,
                                   Err |-> Nil,
                                   Items |-> fetches[Len(fetches)].items]
    /\ exit = "cancel" => Len(pages) = Len(fetches)

\* C11: the loop leaves through cancellation only from the select between
\* two pages, never while a fetch is in flight or a fetched page waits to
\* be sent: whenever the loop is at the select, and whenever it has left
\* through cancellation, every fetched page has been delivered.
C11_CancelOnlyAtCheckpoint ==
    /\ []C11_Inv
    /\ [][(exit # "cancel" /\ exit' = "cancel")
              => (pc = "throttle" /\ cancelChanCloses >= 1)]_vars

\* cancelChan was closed while the second page was being fetched or sent;
\* that page was still delivered before the loop stopped
C11_Witness ==
    /\ exit = "cancel"
    /\ recvAtCancel = 1
    /\ Len(pages) = 2
    /\ Len(fetches) = 2

\* C12: a page carries an error exactly when its fetch failed; a stream
\* that ends by cancellation, by the page bound or by the empty token has
\* emitted no error page, and one that ends on the error exit ends with a
\* failed fetch.
C12_OnlyFetchFailureErrors ==
    /\ \A i \in 1..Len(pages) : pages[i].Err # Nil <=> ~fetches[i].ok
    /\ exit \in {"cancel", "max", "end"} =>
           \A i \in 1..Len(pages) : pages[i].Err = Nil
    /\ exit = "error" => ~fetches[Len(fetches)].ok

\* the stream was cut by the page bound after cancelChan had been closed
C12_Witness ==
    /\ exit = "max"
    /\ cancelChanCloses = 1
    /\ Len(pages) = 3
    /\ pages[3].Err = Nil

\* the request lacks a field its List call requires
InvalidRequest(k, r) ==
    \/ r.isNil
    \/ r.Project = ""
    \/ (k # "ListZones" /\ r.Zone = "")

\* C13: a List call returns an error exactly for a nil request, an empty
\* Project or (ListInstances, ListDNSRecordSets) an empty Zone, and then no
\* stream exists: the goroutine never starts, nothing is fetched, sent or
\* closed, and there is no Cancel function to call.
C13_InvalidRejected ==
    kind # "none" =>
        /\ callErr # Nil <=> InvalidRequest(kind, req)
        /\ callErr # Nil =>
               /\ pc = "idle"
               /\ fetches = <<>>
               /\ pages = <<>>
               /\ pagesChanCloses = 0
               /\ cancelCalls = 0

\* ListInstances was called with a Zone and without a Project
C13_Witness ==
    /\ kind = "ListInstances"
    /\ ~req.isNil
    /\ req.Zone = "z"
    /\ req.Project = ""
    /\ callErr = errBlankProject

\* C14: termination, also with MaxPages = 0: when nobody cancels, every
\* fetch completes and the lister serves a collection of k pages, the loop
\* walks the chain of continuation tokens to its end: it issues at most k
\* fetches and the k-th returns the empty token, after which the loop
\* returns; the loop that has no page bound has no other way to return, so
\* a fetch beyond the k-th is a loop that does not terminate on the
\* collection.
C14_TerminatesWithinCollection ==
    (Started /\ cancelCalls = 0 /\ maxPageNumber <= 0 /\ NoFetchFailed
     /\ CollectionServed)
    => /\ Len(fetches) <= remote
       /\ Len(fetches) = remote => fetches[remote].next = ""

\* C16: the loop has at most one page in flight: a fetch is issued only
\* when every earlier page has been received by the consumer, so the
\* completed fetches exceed the received pages by at most one, and by one
\* exactly while the loop waits in its send.
C16_OnePageInFlight ==
    /\ [](/\ Len(fetches) - Len(pages) \in {0, 1}
          /\ Len(fetches) = Len(pages) + 1 <=> pc \in {"send", "sendErr"})
    /\ [][fetches' # fetches =>
              /\ Len(pages) = Len(fetches)
              /\ Len(fetches') = Len(fetches) + 1]_vars

\* the third page is fetched and waits for the consumer, who has two
C16_Witness ==
    /\ Len(fetches) = 3
    /\ Len(pages) = 2
    /\ pc = "send"

\* a step of a Cancel call
CancelStep ==
    \/ cancelCalls' # cancelCalls
    \/ cancelReturns' # cancelReturns
    \/ cancelChanCloses' # cancelChanCloses

\* C17: a Cancel call made after the stream has closed leaves the
\* terminated loop, the closed channel and the delivered pages unchanged
\* and does not panic.
C17_CancelAfterClose ==
    /\ [](pc = "done" => ~panicked /\ pagesChanCloses = 1)
    /\ [][(pc = "done" /\ CancelStep)
              => (UNCHANGED <<loopVars, pages, consumer>> /\ ~panicked')]_vars

\* the stream ended at the end of the collection and Cancel was called,
\* and returned, after that
C17_Witness ==
    /\ exit = "end"
    /\ cancelChanCloses = 1
    /\ Len(cancelReturns) = 2

\* C18: no fetch follows a failed fetch, the failure is the Err of the last
\* page, and the List call has returned a nil error, which stays nil.
C18_NoRetry ==
    /\ [](\A n \in 1..Len(fetches) :
              ~fetches[n].ok =>
                  /\ n = Len(fetches)
                  /\ callErr = Nil
                  /\ Len(pages) >= n =>
                         pages[n].Err = errFetch /\ n = Len(pages))
    /\ [][callErr = Nil => callErr' = Nil]_vars

\* the second fetch failed and its page ended the stream
C18_Witness ==
    /\ Len(fetches) = 2
    /\ ~fetches[2].ok
    /\ exit = "error"
    /\ callErr = Nil

\* C19: a fetched page is emitted as it is, also without items: it carries
\* no error, and after it the loop stops only for the page bound, a closed
\* cancelChan or an empty continuation token.
C19_EmptyPageEmitted ==
    /\ [](\A i \in 1..Len(fetches) :
              fetches[i].ok =>
                  IF i <= Len(pages)
                  THEN pages[i] = [PageNumber |-> i - 1, Err |-> Nil,
                                   Items |-> fetches[i].items]
                  ELSE pc = "send")
    /\ [][(pc = "send" /\ page.Items = <<>> /\ pc' # pc) =>
              /\ pages' = Append(pages, page)
              /\ pc' = IF maxPageNumber > 0 /\ pageNumber + 1 > maxPageNumber
                       THEN "done" ELSE "throttle"]_vars
    /\ [][(pc = "throttle" /\ pages[Len(pages)].Items = <<>> /\ pc' # pc) =>
              pc' = IF cancelChanCloses >= 1
                       \/ fetches[Len(fetches)].next = ""
                    THEN "done" ELSE "fetch"]_vars

\* the first page had no items and a second page followed it
C19_Witness ==
    /\ Len(pages) = 2
    /\ pages[1].Items = <<>>
    /\ pages[1].Err = Nil
    /\ pages[2].PageNumber = 1

\* C20: every fetch of a stream carries the same page size, ResultsPerPage
\* when it is positive and 40 otherwise; the page bound is the request's
\* MaxPages and ends the stream only when it is positive.
C20_ResolvedOnce ==
    Started =>
        /\ \A n \in 1..Len(fetches) :
               fetches[n].pageSize =
                   IF req.ResultsPerPage > 0 THEN req.ResultsPerPage ELSE 40
        /\ maxPageNumber = req.MaxPages
        /\ req.MaxPages <= 0 => exit # "max"

\* three fetches of a request with negative ResultsPerPage and MaxPages
C20_Witness ==
    /\ Started
    /\ req.ResultsPerPage = -1
    /\ req.MaxPages = -1
    /\ Len(fetches) = 3

\* C15: two streams started side by side are independent: each numbers
\* its pages 0, 1, 2, ... by itself, a stream leaves through cancellation
\* only when its own Cancel function has closed its own cancelChan, a step
\* of one stream's Cancel leaves the other stream as it is.
C15_StreamsIndependent ==
    /\ [](/\ \A i \in 1..Len(pages) : pages[i].PageNumber = i - 1
          /\ \A i \in 1..Len(ipages) : ipages[i].PageNumber = i - 1
          /\ exit = "cancel" => cancelChanCloses >= 1
          /\ iexit = "cancel" => icancelChanCloses >= 1)
    /\ [][cancelVars' # cancelVars => UNCHANGED instVars]_vars
    /\ [][<<icancelOnceDone, icancelChanCloses>>'
              # <<icancelOnceDone, icancelChanCloses>>
              => UNCHANGED <<loopVars, pages, consumer, cancelVars>>]_vars

\* the first stream was cancelled after one page; the second passed its
\* select while the first one's cancelChan was closed and ran to its own
\* page bound
C15_Witness ==
    /\ exit = "cancel"
    /\ Len(pages) = 1
    /\ ipassedCancelled
    /\ icancelChanCloses = 0
    /\ iexit = "max"
    /\ Len(ipages) = 2
    /\ ipages[2].PageNumber = 1

LastFetch == fetches[Len(fetches)]

\* C21: between two successive remote fetches the loop passes exactly one
\* throttle checkpoint: when fetch n+1 is issued, page n has been delivered,
\* exactly n throttle waits have elapsed and the loop has not returned; a
\* wait elapses only at the checkpoint that follows a delivered page; once
\* the cancellation was observed at the checkpoint no fetch is issued.
C21_OneThrottlePerFetch ==
    /\ [](Started =>
            /\ pc \in {"send", "sendErr"} => throttleWaits = Len(fetches) - 1
            /\ pc = "fetch" => throttleWaits = Len(fetches)
            /\ pc = "throttle" => throttleWaits = Len(fetches) - 1)
    /\ [][fetches' # fetches =>
              /\ Len(pages) = Len(fetches)
              /\ throttleWaits = Len(fetches)
              /\ exit = "none"]_vars
    /\ [][throttleWaits' # throttleWaits =>
              /\ pc = "throttle"
              /\ Len(pages) = Len(fetches)
              /\ cancelChanCloses = 0
              /\ throttleWaits' = throttleWaits + 1]_vars
    /\ [][exit = "cancel" => fetches' = fetches /\ pc' = "done"]_vars

\* the second fetch has been issued, after one throttle wait
C21_Witness ==
    Len(fetches) = 2 /\ throttleWaits = 1 /\ Len(pages) = 1 /\ pc = "sendErr"

\* C24: with MaxPages = m > 0 the loop returns in the step that delivers
\* the page after which the counter exceeds m: no throttle wait and no read
\* of cancelChan follow, whatever the continuation token was, the last page
\* carries no error, and no page numbered above m is emitted.
C24_ExitAtMax ==
    /\ [](Started /\ maxPageNumber > 0 =>
            /\ \A i \in 1..Len(pages) : pages[i].PageNumber <= maxPageNumber
            /\ pc \in {"throttle", "fetch"} => pageNumber <= maxPageNumber
            /\ exit = "max" =>
                 /\ pageNumber = maxPageNumber + 1
                 /\ pages[Len(pages)].Err = Nil
                 /\ throttleWaits = Len(fetches) - 1)
    /\ [][(maxPageNumber > 0 /\ pageNumber' = pageNumber + 1
             /\ pageNumber' > maxPageNumber) =>
              /\ pc' = "done"
              /\ exit' = "max"
              /\ pagesChanCloses' = pagesChanCloses + 1
              /\ throttleWaits' = throttleWaits]_vars

\* the loop has returned at the bound although a continuation token was left
C24_Witness ==
    /\ exit = "max"
    /\ maxPageNumber = 2
    /\ LastFetch.next # ""
    /\ cancelChanCloses = 0

\* the last fetch succeeded and returned the empty continuation token
EndFetched == Len(fetches) >= 1 /\ LastFetch.ok /\ LastFetch.next = ""

\* C25 as stated: after a successful fetch that returned the empty
\* continuation token the loop delivers that page, goes to the throttle
\* checkpoint and returns there; no fetch is issued and no other page is
\* delivered afterwards.
C25_EndOfCollection ==
    /\ [](EndFetched =>
            /\ pc \in {"send", "throttle", "done"}
            /\ pc = "send" => Len(pages) = Len(fetches) - 1
            /\ pc \in {"throttle", "done"} => Len(pages) = Len(fetches)
            /\ pc = "done" => exit \in {"end", "cancel"}
            /\ exit = "end" => throttleWaits = Len(fetches))
    /\ [](exit = "end" => EndFetched)
    /\ [][EndFetched => fetches' = fetches]_vars
    /\ [][(EndFetched /\ pc = "send" /\ pc' # pc) =>
              pc' = "throttle" /\ pages' = Append(pages, page)]_vars
    /\ [][(EndFetched /\ pc = "throttle" /\ pc' # pc) => pc' = "done"]_vars
    /\ (EndFetched /\ pc = "throttle") ~> (pc = "done")

\* the counter exceeds MaxPages once the page in hand is delivered
BoundAfterDelivery == maxPageNumber > 0 /\ pageNumber + 1 > maxPageNumber

\* C25 as amended: after a successful fetch that returned the empty
\* continuation token the loop delivers that page and no fetch is issued and
\* no other page is delivered afterwards; it goes to the throttle checkpoint
\* and returns there, unless the counter exceeds MaxPages after the delivery:
\* then it returns with the delivery, without passing the checkpoint.
C25_EndOfCollectionOrBound ==
    /\ [](EndFetched =>
            /\ pc \in {"send", "throttle", "done"}
            /\ pc = "send" => Len(pages) = Len(fetches) - 1
            /\ pc \in {"throttle", "done"} => Len(pages) = Len(fetches)
            /\ pc = "done" => exit \in {"end", "cancel", "max"}
            /\ exit = "max" => /\ maxPageNumber > 0
                               /\ pageNumber = maxPageNumber + 1
                               /\ throttleWaits = Len(fetches) - 1
            /\ pc = "throttle" => pageNumber <= maxPageNumber
                                      \/ maxPageNumber <= 0
            /\ exit = "end" => throttleWaits = Len(fetches))
    /\ [](exit = "end" => EndFetched)
    /\ [][EndFetched => fetches' = fetches]_vars
    /\ [][(EndFetched /\ pc = "send" /\ pc' # pc) =>
              /\ pages' = Append(pages, page)
              /\ IF BoundAfterDelivery
                 THEN pc' = "done" /\ exit' = "max"
                 ELSE pc' = "throttle"]_vars
    /\ [][(EndFetched /\ pc = "throttle" /\ pc' # pc) => pc' = "done"]_vars
    /\ (EndFetched /\ pc = "throttle") ~> (pc = "done")

\* the collection ended with the second page, below the page bound, and the
\* loop has returned at the checkpoint after it
C25_Witness ==
    /\ exit = "end"
    /\ EndFetched
    /\ maxPageNumber = 2
    /\ throttleWaits = 2
    /\ Len(pages) = 2
    /\ cancelChanCloses = 0

(* -------------------- the three loops on one schedule ------------------- *)

\* the consumer of every loop receives at most this many pages
MaxLockPages == 3

\* continuation tokens the listers return
LockTokens == {"", "1"}

\* observable events of a loop
FetchEvent(token) ==
    [ev |-> "fetch", token |-> token, number |-> -1, err |-> FALSE]
PageEvent(number, err) ==
    [ev |-> "page", token |-> "", number |-> number, err |-> err]
ThrottleEvent == [ev |-> "throttle", token |-> "", number |-> -1, err |-> FALSE]
CloseEvent == [ev |-> "close", token |-> "", number |-> -1, err |-> FALSE]

\* the locals of a loop when its goroutine starts: pageToken := "",
\* pageNumber := int64(0), maxPageNumber := req.MaxPages
LoopStart(m) == [LoopIdle EXCEPT !.pc = "fetch", !.maxPageNumber = m]

\* schedule items: an answer of the lister, a receive of the consumer, the
\* select being resolved, a call of the Cancel function
FetchItem(ok, next) == [type |-> "fetch", ok |-> ok, next |-> next]
RecvItem == [type |-> "recv", ok |-> TRUE, next |-> ""]
SelectItem == [type |-> "select", ok |-> TRUE, next |-> ""]
CancelItem == [type |-> "cancel", ok |-> TRUE, next |-> ""]

\* pageExceedsMax of ListZones (infra.go)
zonesPageExceedsMax(m, pn) ==
    IF m <= 0 THEN FALSE ELSE pn > m

\* one step of the goroutine of ListZones on the schedule item in (infra.go)
ZonesStep(st, in) ==
    CASE st.pc = "fetch" /\ in.type = "fetch" ->
           \* zlc.PageToken(pageToken); zlr, err := zlc.Do()
           LET issued == Append(st.events, FetchEvent(st.pageToken)) IN
           IF in.ok
           THEN [st EXCEPT !.pc = "send", !.next = in.next,
                           !.events = issued]
           ELSE [st EXCEPT !.pc = "sendErr", !.events = issued]
      [] st.pc = "sendErr" /\ in.type = "recv" ->
           \* zpage.Err = err; pagesChan <- zpage; return
           [st EXCEPT !.pc = "done",
                      !.events = st.events \o
                          <<PageEvent(st.pageNumber, TRUE), CloseEvent>>]
      [] st.pc = "send" /\ in.type = "recv" ->
           \* pagesChan <- zpage; pageNumber += 1; if pageExceedsMax(...)
           \* { return }; pageToken := zlr.NextPageToken; select
           LET sent == Append(st.events, PageEvent(st.pageNumber, FALSE))
               pn == st.pageNumber + 1
           IN  IF zonesPageExceedsMax(st.maxPageNumber, pn)
               THEN [st EXCEPT !.pc = "done", !.pageNumber = pn,
                               !.events = Append(sent, CloseEvent)]
               ELSE [st EXCEPT !.pc = "throttle", !.pageNumber = pn,
                               !.innerPageToken = st.next,
                               !.events = Append(sent, ThrottleEvent)]
      [] st.pc = "throttle" /\ in.type = "select" ->
           \* case <-cancelChan: return; case <-time.After(...): then
           \* if pageToken == "" { break }
           IF st.cancelled \/ st.innerPageToken = ""
           THEN [st EXCEPT !.pc = "done",
                           !.events = Append(st.events, CloseEvent)]
           ELSE [st EXCEPT !.pc = "fetch"]
      [] st.pc # "idle" /\ in.type = "cancel" ->
           \* cancelFn closes the cancelChan of this call
           [st EXCEPT !.cancelled = TRUE]
      [] OTHER -> st

\* the bound of ListInstances is reached one page early
instancesPageExceedsMax_early(m, pn) ==
    IF m <= 0 THEN FALSE ELSE pn >= m

\* pageExceedsMax of ListInstances (infra.go)
instancesPageExceedsMax(m, pn) ==
    IF m <= 0 THEN FALSE ELSE pn > m

\* one step of the goroutine of ListInstances on the schedule item in (infra.go)
InstancesStep(st, in) ==
    CASE st.pc = "fetch" /\ in.type = "fetch" ->
           \* ilc.PageToken(pageToken); ilr, err := ilc.Do()
           LET issued == Append(st.events, FetchEvent(st.pageToken)) IN
           IF in.ok
           THEN [st EXCEPT !.pc = "send", !.next = in.next,
                           !.events = issued]
           ELSE [st EXCEPT !.pc = "sendErr", !.events = issued]
      [] st.pc = "sendErr" /\ in.type = "recv" ->
           \* ipage.Err = err; pagesChan <- ipage; return
           [st EXCEPT !.pc = "done",
                      !.events = st.events \o
                          <<PageEvent(st.pageNumber, TRUE), CloseEvent>>]
      [] st.pc = "send" /\ in.type = "recv" ->
           \* pagesChan <- ipage; pageNumber += 1; if pageExceedsMax(...)
           \* { return }; pageToken := ilr.NextPageToken; select
           LET sent == Append(st.events, PageEvent(st.pageNumber, FALSE))
               pn == st.pageNumber + 1
           IN  IF instancesPageExceedsMax(st.maxPageNumber, pn)
               THEN [st EXCEPT !.pc = "done", !.pageNumber = pn,
                               !.events = Append(sent, CloseEvent)]
               ELSE [st EXCEPT !.pc = "throttle", !.pageNumber = pn,
                               !.innerPageToken = st.next,
                               !.events = Append(sent, ThrottleEvent)]
      [] st.pc = "throttle" /\ in.type = "select" ->
           \* case <-cancelChan: return; case <-time.After(...): then
           \* if pageToken == "" { break }
           IF st.cancelled \/ st.innerPageToken = ""
           THEN [st EXCEPT !.pc = "done",
                           !.events = Append(st.events, CloseEvent)]
           ELSE [st EXCEPT !.pc = "fetch"]
      [] st.pc # "idle" /\ in.type = "cancel" ->
           \* cancelFn closes the cancelChan of this call
           [st EXCEPT !.cancelled = TRUE]
      [] OTHER -> st

\* pageExceedsMax of ListDNSRecordSets (dns.go)
recordSetsPageExceedsMax(m, pn) ==
    IF m <= 0 THEN FALSE ELSE pn > m

\* one step of the goroutine of ListDNSRecordSets on the schedule item in (dns.go)
RecordSetsStep(st, in) ==
    CASE st.pc = "fetch" /\ in.type = "fetch" ->
           \* dnsLc.PageToken(pageToken); dRes, err := dnsLc.Do()
           LET issued == Append(st.events, FetchEvent(st.pageToken)) IN
           IF in.ok
           THEN [st EXCEPT !.pc = "send", !.next = in.next,
                           !.events = issued]
           ELSE [st EXCEPT !.pc = "sendErr", !.events = issued]
      [] st.pc = "sendErr" /\ in.type = "recv" ->
           \* dPage.Err = err; pagesChan <- dPage; return
           [st EXCEPT !.pc = "done",
                      !.events = st.events \o
                          <<PageEvent(st.pageNumber, TRUE), CloseEvent>>]
      [] st.pc = "send" /\ in.type = "recv" ->
           \* pagesChan <- dPage; pageNumber += 1; if pageExceedsMax(...)
           \* { return }; pageToken := dRes.NextPageToken; select
           LET sent == Append(st.events, PageEvent(st.pageNumber, FALSE))
               pn == st.pageNumber + 1
           IN  IF recordSetsPageExceedsMax(st.maxPageNumber, pn)
               THEN [st EXCEPT !.pc = "done", !.pageNumber = pn,
                               !.events = Append(sent, CloseEvent)]
               ELSE [st EXCEPT !.pc = "throttle", !.pageNumber = pn,
                               !.innerPageToken = st.next,
                               !.events = Append(sent, ThrottleEvent)]
      [] st.pc = "throttle" /\ in.type = "select" ->
           \* case <-cancelChan: return; case <-time.After(...): then
           \* if pageToken == "" { break }
           IF st.cancelled \/ st.innerPageToken = ""
           THEN [st EXCEPT !.pc = "done",
                           !.events = Append(st.events, CloseEvent)]
           ELSE [st EXCEPT !.pc = "fetch"]
      [] st.pc # "idle" /\ in.type = "cancel" ->
           \* cancelFn closes the cancelChan of this call
           [st EXCEPT !.cancelled = TRUE]
      [] OTHER -> st

PagesOf(st) == Len(SelectSeq(st.events, LAMBDA e : e.ev = "page"))

\* the state of both streams of the listing model
streamVars == <<remote, emptyPage, kind, req, callErr, maxPageNumber,
                maxResultsPerPage, loopVars, pages, consumer, cancelVars,
                throttleWaits, instVars>>

\* what a step of the three loops leaves alone
lockFrame == <<streamVars, dedupVars, dnsVars, setupVars, pureVars>>

\* the three loops take the same schedule item
LockApply(in) ==
    /\ zst' = ZonesStep(zst, in)
    /\ ist' = InstancesStep(ist, in)
    /\ dst' = RecordSetsStep(dst, in)
    /\ UNCHANGED lockFrame

\* the three List calls are made with the same MaxPages
LockStart(m) ==
    /\ zst.pc = "idle" /\ ist.pc = "idle" /\ dst.pc = "idle"
    /\ zst' = LoopStart(m)
    /\ ist' = LoopStart(m)
    /\ dst' = LoopStart(m)
    /\ UNCHANGED lockFrame

AnyAt(p) == zst.pc = p \/ ist.pc = p \/ dst.pc = p

LockFetch(ok, next) == AnyAt("fetch") /\ LockApply(FetchItem(ok, next))

LockReceive ==
    /\ AnyAt("send") \/ AnyAt("sendErr")
    /\ PagesOf(zst) < MaxLockPages
    /\ PagesOf(ist) < MaxLockPages
    /\ PagesOf(dst) < MaxLockPages
    /\ LockApply(RecvItem)

LockSelect == AnyAt("throttle") /\ LockApply(SelectItem)

LockCancel ==
    /\ zst.pc \notin {"idle", "done"}
    /\ ~zst.cancelled
    /\ LockApply(CancelItem)

LockNext ==
    \/ \E m \in -1..MaxMaxPages : LockStart(m)
    \/ \E ok \in BOOLEAN : \E next \in LockTokens : LockFetch(ok, next)
    \/ LockReceive
    \/ LockSelect
    \/ LockCancel

LockSpec == Init /\ [][LockNext]_vars

\* C22: ListZones, ListInstances and ListDNSRecordSets, given the same
\* MaxPages, the same lister answers, the same consumer and the same
\* cancellation schedule, produce the same sequence of observable events
\* (fetch with its token, page with its number and error flag, throttle
\* checkpoint, close).
C22_SameEvents ==
    /\ zst.events = ist.events
    /\ ist.events = dst.events
    /\ zst.pc = ist.pc
    /\ ist.pc = dst.pc

\* the three loops have fetched, delivered, been cancelled and closed
C22_Witness ==
    /\ dst.pc = "done"
    /\ dst.cancelled
    /\ dst.maxPageNumber = 2
    /\ PagesOf(dst) = 2
    /\ PagesOf(ist) = 2
    /\ PagesOf(zst) = 2
    /\ \E i \in 1..Len(dst.events) :
           dst.events[i].ev = "fetch" /\ dst.events[i].token = ""

(* ------------------------------- strings -------------------------------- *)
\* A string is the sequence of its characters.

\* longest string among the arguments of dedup
MaxStrLen == 2

\* largest number of arguments of dedup
MaxItems == 3

Chars == {" ", "a", "b"}

\* unicode.IsSpace on the characters above
IsSpace(c) == c = " "

RECURSIVE TrimLeft(_)
TrimLeft(str) ==
    IF str # <<>> /\ IsSpace(Head(str)) THEN TrimLeft(Tail(str)) ELSE str

RECURSIVE TrimRight(_)
TrimRight(str) ==
    IF str # <<>> /\ IsSpace(str[Len(str)])
    THEN TrimRight(SubSeq(str, 1, Len(str) - 1))
    ELSE str

\* strings.TrimSpace
TrimSpace(str) == TrimRight(TrimLeft(str))

SeqsUpTo(S, n) == UNION {[1..k -> S] : k \in 0..n}

Strings == SeqsUpTo(Chars, MaxStrLen)

(* -------------------------------- dedup --------------------------------- *)

\* the body of the for loop of dedup over the rest of the items
RECURSIVE dedupLoop(_, _, _)
dedupLoop(rest, seen, uniq) ==
    IF rest = <<>> THEN uniq
    ELSE LET item == Head(rest)
             trimmedItem == TrimSpace(item)
         IN  IF item \in seen
             THEN dedupLoop(Tail(rest), seen, uniq)
             ELSE IF trimmedItem = <<>>
                  THEN dedupLoop(Tail(rest), seen, uniq)
                  ELSE dedupLoop(Tail(rest),
                                 seen \cup {item, trimmedItem},
                                 Append(uniq, trimmedItem))

\* func dedup(items ...string) []string
dedup(args) == dedupLoop(args, {}, <<>>)

DedupInputs == SeqsUpTo(Strings, MaxItems)

DedupInit ==
    /\ ListInit
    /\ DnsIdle
    /\ SetupIdle
    /\ PureIdle
    /\ remote = 1
    /\ emptyPage = 1
    /\ items \in DedupInputs
    /\ uniqRecords = <<>>
    /\ uniqAgain = <<>>
    /\ dpc = "input"

\* what a call of dedup leaves alone
dedupFrame == <<streamVars, lockVars, dnsVars, setupVars, pureVars>>

\* uniq := dedup(items...)
DedupCall ==
    /\ dpc = "input"
    /\ uniqRecords' = dedup(items)
    /\ dpc' = "deduped"
    /\ UNCHANGED <<items, uniqAgain>>
    /\ UNCHANGED dedupFrame

\* dedup applied to the slice it returned
DedupAgain ==
    /\ dpc = "deduped"
    /\ uniqAgain' = dedup(uniqRecords)
    /\ dpc' = "again"
    /\ UNCHANGED <<items, uniqRecords>>
    /\ UNCHANGED dedupFrame

DedupNext == DedupCall \/ DedupAgain

DedupSpec == DedupInit /\ [][DedupNext]_vars

\* the trimmed non-blank items, each at its first occurrence only
RECURSIVE FirstOccurrences(_, _)
FirstOccurrences(rest, acc) ==
    IF rest = <<>> THEN acc
    ELSE LET t == TrimSpace(Head(rest)) IN
         IF t = <<>> \/ \E i \in 1..Len(acc) : acc[i] = t
         THEN FirstOccurrences(Tail(rest), acc)
         ELSE FirstOccurrences(Tail(rest), Append(acc, t))

NoValueTwice(seq) ==
    \A i, j \in 1..Len(seq) : seq[i] = seq[j] => i = j

\* C30: dedup returns the whitespace-trimmed non-blank items in order of
\* first occurrence, no value twice (items that differ only in surrounding
\* whitespace are one value), and dedup of its own result is that result.
C30_DedupCanonical ==
    /\ dpc \in {"deduped", "again"} =>
         /\ uniqRecords = FirstOccurrences(items, <<>>)
         /\ NoValueTwice(uniqRecords)
    /\ dpc = "again" => uniqAgain = uniqRecords

(* ------------------------------ DNS records ----------------------------- *)

errBlankCanonicalName == "expecting a non-blank canonical name"
errEmptyIPV4Addresses == "expecting at least one IPV4 address"
errEmptyIPV6Addresses == "expecting at least one IPV6 address"
errEmptyCertificateAuthorityAuthorizations ==
    "expecting at least one certificate authority authorization"
errEmptySPFData == "expecting at least one SPF record"
errEmptySRVData == "expecting at least one SRV record"
errEmptyTXTRecords == "expecting at least one TXT record"
errEmptyNameServers == "expecting at least one name server"
errEmptyPreferenceAndMailServers ==
    "expecting at least one preferenceAndMailServer"
errBlankUpdateRequest == "expecting a non-blank updateRequest"
errUnknownRecordType == "unknown recordType"
errRemote == "remote call failed"

\* RecordType constants
AAAName == "AAA"
AName == "A"
CName == "CNAME"
CAA == "CAA"
MX == "MX"
NS == "NS"
SPF == "SPF"
SRV == "SRV"
TXT == "TXT"

\* a Record with every field at its zero value
ZeroRecord ==
    [DNSName |-> <<>>, Type |-> "", IPV4Addresses |-> <<>>,
     IPV6Addresses |-> <<>>, CanonicalName |-> <<>>, NameServers |-> <<>>,
     CertificateAuthorityAuthorizations |-> <<>>,
     PreferenceAndMailServers |-> <<>>, SPFData |-> <<>>, SRVData |-> <<>>,
     TXTRecords |-> <<>>]

\* func ensureHasTrailingDot(s string) string
ensureHasTrailingDot(str) ==
    IF Len(str) > 0 /\ str[Len(str)] = "." THEN str ELSE Append(str, ".")

\* func (r *Record) toRecordSet() *dns.ResourceRecordSet
toRecordSet(r) ==
    [Name |-> ensureHasTrailingDot(r.DNSName),
     Type |-> r.Type,
     Rrdatas |->
        (IF r.CanonicalName # <<>>
         THEN <<ensureHasTrailingDot(r.CanonicalName)>> ELSE <<>>)
        \o r.CertificateAuthorityAuthorizations
        \o r.IPV4Addresses
        \o r.IPV6Addresses
        \o r.NameServers
        \o r.PreferenceAndMailServers
        \o r.SPFData
        \o r.SRVData
        \o r.TXTRecords]

\* func (r *Record) validateForAAAName() error
validateForAAAName(r) ==
    LET uniqs == dedup(r.IPV6Addresses) IN
    IF Len(uniqs) = 0
    THEN [err |-> errEmptyIPV6Addresses, rec |-> r]
    ELSE [err |-> Nil, rec |-> [r EXCEPT !.IPV6Addresses = uniqs]]

\* func (r *Record) validateForSPF() error
validateForSPF(r) ==
    LET uniqs == dedup(r.SPFData) IN
    IF Len(uniqs) = 0
    THEN [err |-> errEmptySPFData, rec |-> r]
    ELSE [err |-> Nil, rec |-> [r EXCEPT !.SPFData = uniqs]]

\* func (r *Record) validateForTXT() error
validateForTXT(r) ==
    LET uniqs == dedup(r.TXTRecords) IN
    IF Len(uniqs) = 0
    THEN [err |-> errEmptyTXTRecords, rec |-> r]
    ELSE [err |-> Nil, rec |-> [r EXCEPT !.TXTRecords = uniqs]]

\* func (r *Record) validateForSRV() error
validateForSRV(r) ==
    LET uniqs == dedup(r.SRVData) IN
    IF Len(uniqs) = 0
    THEN [err |-> errEmptySPFData, rec |-> r]
    ELSE [err |-> Nil, rec |-> [r EXCEPT !.SRVData = uniqs]]

\* func (r *Record) validateForNS() error
validateForNS(r) ==
    LET uniqs == dedup(r.NameServers) IN
    IF Len(uniqs) = 0
    THEN [err |-> errEmptyNameServers, rec |-> r]
    ELSE [err |-> Nil, rec |-> [r EXCEPT !.NameServers = uniqs]]

\* func (r *Record) validateForMX() error
validateForMX(r) ==
    LET uniqs == dedup(r.PreferenceAndMailServers) IN
    IF Len(uniqs) = 0
    THEN [err |-> errEmptyPreferenceAndMailServers, rec |-> r]
    ELSE [err |-> Nil, rec |-> [r EXCEPT !.PreferenceAndMailServers = uniqs]]

\* func (r *Record) validateForAName() error
validateForAName(r) ==
    LET uniqs == dedup(r.IPV4Addresses) IN
    IF Len(uniqs) = 0
    THEN [err |-> errEmptyIPV4Addresses, rec |-> r]
    ELSE [err |-> Nil, rec |-> [r EXCEPT !.IPV4Addresses = uniqs]]

\* func (r *Record) validateForCAA() error
validateForCAA(r) ==
    LET uniqs == dedup(r.CertificateAuthorityAuthorizations) IN
    IF Len(uniqs) = 0
    THEN [err |-> errEmptyCertificateAuthorityAuthorizations, rec |-> r]
    ELSE [err |-> Nil, rec |-> [r EXCEPT !.CertificateAuthorityAuthorizations = uniqs]]

\* func (r *Record) validateForCName() error
validateForCName(r) ==
    IF TrimSpace(r.CanonicalName) = <<>>
    THEN [err |-> errBlankCanonicalName, rec |-> r]
    ELSE [err |-> Nil, rec |-> r]

\* func (r *Record) Validate() error; rec is the record as Validate leaves it
RecordValidate(r) ==
    CASE r.Type = AAAName -> validateForAAAName(r)
      [] r.Type = AName -> validateForAName(r)
      [] r.Type = CAA -> validateForCAA(r)
      [] r.Type = CName -> validateForCName(r)
      [] r.Type = MX -> validateForMX(r)
      [] r.Type = NS -> validateForNS(r)
      [] r.Type = SPF -> validateForSPF(r)
      [] r.Type = SRV -> validateForSRV(r)
      [] r.Type = TXT -> validateForTXT(r)
      [] OTHER -> [err |-> errUnknownRecordType, rec |-> r]

\* func toRecordSets(records ...*Record) ([]*dns.ResourceRecordSet, error)
\* records is the list as rec.Validate() leaves the records it was called on
RECURSIVE toRecordSetsLoop(_, _)
toRecordSetsLoop(records, rrsets) ==
    IF records = <<>>
    THEN [err |-> Nil, rrsets |-> rrsets, records |-> <<>>]
    ELSE LET v == RecordValidate(Head(records)) IN
         IF v.err # Nil
         THEN [err |-> v.err, rrsets |-> <<>>, records |-> records]
         ELSE LET rest == toRecordSetsLoop(Tail(records),
                              Append(rrsets, toRecordSet(v.rec)))
              IN [rest EXCEPT !.records = <<v.rec>> \o @]

toRecordSets(records) == toRecordSetsLoop(records, <<>>)

\* func (ureq *UpdateRequest) validate() error
UpdateRequestValidate(u) ==
    IF u.isNil \/ u.Zone = <<>> THEN errBlankZone
    ELSE IF u.Project = <<>> THEN errBlankProject
    ELSE Nil

\* cl := c.changesService().Create(ureq.Project, ureq.Zone, change);
\* return cl.Do()   with the remote answering ok or an error
ChangesCreate(change, remoteOK) ==
    [err |-> IF remoteOK THEN Nil ELSE errRemote,
     change |-> IF remoteOK THEN change ELSE NoChange,
     created |-> 1,
     sent |-> change]

\* the change is created without a look at the deletions
UpdateRecordSets_deletionsUnchecked(u, remoteOK) ==
    IF UpdateRequestValidate(u) # Nil
    THEN [NoDnsOut EXCEPT !.err = UpdateRequestValidate(u)]
    ELSE LET additions == toRecordSets(u.Additions) IN
         IF additions.err # Nil
         THEN [NoDnsOut EXCEPT !.err = additions.err]
         ELSE ChangesCreate(
                  [Additions |-> additions.rrsets,
                   Deletions |-> [i \in 1..Len(u.Deletions) |->
                                     toRecordSet(u.Deletions[i])]],
                  remoteOK)

\* func (c *Client) UpdateRecordSets(ureq *UpdateRequest)
UpdateRecordSets(u, remoteOK) ==
    IF UpdateRequestValidate(u) # Nil
    THEN [NoDnsOut EXCEPT !.err = UpdateRequestValidate(u)]
    ELSE LET deletions == toRecordSets(u.Deletions) IN
         IF deletions.err # Nil
         THEN [NoDnsOut EXCEPT !.err = deletions.err]
         ELSE LET additions == toRecordSets(u.Additions) IN
              IF additions.err # Nil
              THEN [NoDnsOut EXCEPT !.err = additions.err]
              ELSE ChangesCreate([Additions |-> additions.rrsets,
                                  Deletions |-> deletions.rrsets],
                                 remoteOK)

\* the Deletions and Additions of ureq as UpdateRecordSets leaves them:
\* toRecordSets calls rec.Validate() on the caller's records, which writes
\* the deduplicated list into each record that passes, up to the first
\* record that fails
recordsAfterUpdate(u) ==
    IF UpdateRequestValidate(u) # Nil
    THEN [Deletions |-> u.Deletions, Additions |-> u.Additions]
    ELSE LET deletions == toRecordSets(u.Deletions) IN
         [Deletions |-> deletions.records,
          Additions |-> IF deletions.err # Nil THEN u.Additions
                        ELSE toRecordSets(u.Additions).records]

\* func (c *Client) AddRecordSets(areq *UpdateRequest)
AddRecordSets(areq, remoteOK) ==
    IF areq.isNil
    THEN [NoDnsOut EXCEPT !.err = errBlankUpdateRequest]
    ELSE UpdateRecordSets([isNil |-> FALSE, Zone |-> areq.Zone,
                           Project |-> areq.Project, Records |-> <<>>,
                           Additions |-> areq.Records, Deletions |-> <<>>],
                          remoteOK)

\* func (c *Client) DeleteRecordSets(dreq *UpdateRequest)
DeleteRecordSets(dreq, remoteOK) ==
    IF dreq.isNil
    THEN [NoDnsOut EXCEPT !.err = errBlankUpdateRequest]
    ELSE UpdateRecordSets([isNil |-> FALSE, Zone |-> dreq.Zone,
                           Project |-> dreq.Project, Records |-> <<>>,
                           Additions |-> <<>>, Deletions |-> dreq.Records],
                          remoteOK)

(* --------------------------- DNS update calls --------------------------- *)

\* longest list of records in an UpdateRequest
MaxRecords == 2

\* records the requests are made of: an A record with the same address
\* twice, once with a leading blank, an A record whose only address is blank, a CNAME record, a CNAME record with
\* a blank canonical name, a record of a type that is not a RecordType
RecordPool ==
    {[ZeroRecord EXCEPT !.Type = AName, !.DNSName = <<"d">>,
                        !.IPV4Addresses = <<<<" ", "a">>, <<"a">>>>],
     [ZeroRecord EXCEPT !.Type = AName, !.DNSName = <<"d">>,
                        !.IPV4Addresses = <<<<" ">>>>],
     [ZeroRecord EXCEPT !.Type = CName, !.DNSName = <<"w">>,
                        !.CanonicalName = <<"d">>],
     [ZeroRecord EXCEPT !.Type = CName, !.DNSName = <<"w">>,
                        !.CanonicalName = <<" ">>],
     [ZeroRecord EXCEPT !.Type = "PTR", !.DNSName = <<"d">>]}

RecordLists == SeqsUpTo(RecordPool, MaxRecords)

\* the lists AddRecordSets and DeleteRecordSets do not read
IgnoredLists ==
    {<<>>, <<[ZeroRecord EXCEPT !.Type = "PTR", !.DNSName = <<"d">>]>>}

UpdateRequests(op) ==
    {NilUpdateRequest} \cup
    [isNil : {FALSE}, Zone : {<<>>, <<"z">>}, Project : {<<>>, <<"p">>},
     Records : IF op = "Update" THEN {<<>>} ELSE RecordLists,
     Additions : IF op = "Update" THEN RecordLists ELSE IgnoredLists,
     Deletions : IF op = "Update" THEN RecordLists ELSE IgnoredLists]

DnsInit ==
    /\ ListInit
    /\ DedupIdle
    /\ SetupIdle
    /\ PureIdle
    /\ remote = 1
    /\ emptyPage = 1
    /\ dnsOp \in {"Update", "Add", "Delete"}
    /\ ureq \in UpdateRequests(dnsOp)
    /\ dnsOut = NoDnsOut
    /\ dnsPc = "input"

\* what a DNS update call leaves alone
dnsFrame == <<streamVars, lockVars, dedupVars, setupVars, pureVars>>

\* c.UpdateRecordSets(ureq)
DnsUpdateCall(remoteOK) ==
    /\ dnsPc = "input"
    /\ dnsOp = "Update"
    /\ dnsOut' = UpdateRecordSets(ureq, remoteOK)
    /\ ureq' = [ureq EXCEPT
                  !.Deletions = recordsAfterUpdate(ureq).Deletions,
                  !.Additions = recordsAfterUpdate(ureq).Additions]
    /\ dnsPc' = "done"
    /\ UNCHANGED dnsOp
    /\ UNCHANGED dnsFrame

\* c.AddRecordSets(ureq)
DnsAddCall(remoteOK) ==
    /\ dnsPc = "input"
    /\ dnsOp = "Add"
    /\ dnsOut' = AddRecordSets(ureq, remoteOK)
    /\ ureq' = IF ureq.isNil THEN ureq
               ELSE [ureq EXCEPT !.Records = recordsAfterUpdate(
                        [isNil |-> FALSE, Zone |-> ureq.Zone,
                         Project |-> ureq.Project, Records |-> <<>>,
                         Additions |-> ureq.Records,
                         Deletions |-> <<>>]).Additions]
    /\ dnsPc' = "done"
    /\ UNCHANGED dnsOp
    /\ UNCHANGED dnsFrame

\* c.DeleteRecordSets(ureq)
DnsDeleteCall(remoteOK) ==
    /\ dnsPc = "input"
    /\ dnsOp = "Delete"
    /\ dnsOut' = DeleteRecordSets(ureq, remoteOK)
    /\ ureq' = IF ureq.isNil THEN ureq
               ELSE [ureq EXCEPT !.Records = recordsAfterUpdate(
                        [isNil |-> FALSE, Zone |-> ureq.Zone,
                         Project |-> ureq.Project, Records |-> <<>>,
                         Additions |-> <<>>,
                         Deletions |-> ureq.Records]).Deletions]
    /\ dnsPc' = "done"
    /\ UNCHANGED dnsOp
    /\ UNCHANGED dnsFrame

DnsNext ==
    \/ \E ok \in BOOLEAN : DnsUpdateCall(ok)
    \/ \E ok \in BOOLEAN : DnsAddCall(ok)
    \/ \E ok \in BOOLEAN : DnsDeleteCall(ok)

DnsSpec == DnsInit /\ [][DnsNext]_vars

\* the records the call is to delete and to add
RequestedDeletions ==
    CASE dnsOp = "Update" -> ureq.Deletions
      [] dnsOp = "Delete" -> ureq.Records
      [] OTHER -> <<>>
RequestedAdditions ==
    CASE dnsOp = "Update" -> ureq.Additions
      [] dnsOp = "Add" -> ureq.Records
      [] OTHER -> <<>>
AllPassValidate(records) ==
    \A i \in 1..Len(records) : RecordValidate(records[i]).err = Nil
RequestAccepted ==
    /\ ~ureq.isNil
    /\ ureq.Zone # <<>>
    /\ ureq.Project # <<>>
    /\ AllPassValidate(RequestedDeletions)
    /\ AllPassValidate(RequestedAdditions)
SameRecords(rrsets, records) ==
    /\ Len(rrsets) = Len(records)
    /\ \A i \in 1..Len(records) :
          /\ rrsets[i].Type = records[i].Type
          /\ rrsets[i].Name = ensureHasTrailingDot(records[i].DNSName)

\* C29: the remote change is created exactly when the request has a
\* non-empty Zone and Project and every record of Deletions and of Additions
\* passes Record.Validate; otherwise an error is returned and nothing is
\* sent.  AddRecordSets sends Records as additions only, DeleteRecordSets
\* as deletions only.
C29_AllOrNothing ==
    dnsPc = "done" =>
      /\ dnsOut.created = 1 <=> RequestAccepted
      /\ ~RequestAccepted =>
           /\ dnsOut.err # Nil
           /\ dnsOut.sent = NoChange
           /\ dnsOut.change = NoChange
      /\ dnsOut.created = 1 =>
           /\ SameRecords(dnsOut.sent.Additions, RequestedAdditions)
           /\ SameRecords(dnsOut.sent.Deletions, RequestedDeletions)
      /\ dnsOp = "Add" => dnsOut.sent.Deletions = <<>>
      /\ dnsOp = "Delete" => dnsOut.sent.Additions = <<>>

\* UpdateRecordSets has created a change with deletions and additions
C29_Witness ==
    /\ dnsPc = "done"
    /\ dnsOp = "Update"
    /\ dnsOut.created = 1
    /\ dnsOut.err = Nil
    /\ Len(dnsOut.sent.Deletions) = 1
    /\ Len(dnsOut.sent.Additions) = 2

(* ------------------------------ instances ------------------------------- *)

errBlankName == "expecting a non-blank name"
errEmptyNetworkInterface == "expecting a non-blank network interface"
errEmptyDomainName == "expecting a non-empty domain name"
errOperation == "operation error"
errNilInstance == "nil pointer dereference"

\* func (ireq *InstanceRequest) validateBasic() error
validateBasic(ir) ==
    IF ir.Project = <<>> THEN errEmptyProject
    ELSE IF ir.Zone = <<>> THEN errEmptyZone
    ELSE IF ir.Name = <<>> THEN errBlankName
    ELSE Nil

\* func (ireq *InstanceRequest) validateForCreate() error, with the default
\* machine type basic1VCPUMachine, which passes MachineType.Validate
validateForCreate(ir) ==
    IF validateBasic(ir) # Nil THEN validateBasic(ir)
    ELSE IF ~ir.NetworkInterface THEN errEmptyNetworkInterface
    ELSE Nil

\* answers of instancesService().Get(...).Do(): an error, or an instance
\* with up to two network interfaces
GetAnswers ==
    {[ok |-> FALSE, NetworkIPs |-> <<>>]} \cup
    [ok : {TRUE}, NetworkIPs : {<<>>, <<<<"a">>>>, <<<<"a">>, <<"b">>>>}]

\* answers of instancesService().Insert(...).Do(): an error, an operation
\* that carries an Error, an operation without
InsertAnswers == {"fail", "opError", "ok"}

\* func (c *Client) FindInstance(ireq *InstanceRequest)
FindInstance(ir, get) ==
    IF validateBasic(ir) # Nil
    THEN [err |-> validateBasic(ir), instance |-> NilInstance,
          calls |-> <<>>]
    ELSE IF get.ok
         THEN [err |-> Nil,
               instance |-> [isNil |-> FALSE, NetworkIPs |-> get.NetworkIPs],
               calls |-> <<"Instances.Get">>]
         ELSE [err |-> errRemote, instance |-> NilInstance,
               calls |-> <<"Instances.Get">>]

\* func (c *Client) CreateInstance(ireq *InstanceRequest)
CreateInstance(ir, insert, get) ==
    IF validateForCreate(ir) # Nil
    THEN [err |-> validateForCreate(ir), instance |-> NilInstance,
          calls |-> <<>>]
    ELSE IF insert = "fail"
         THEN [err |-> errRemote, instance |-> NilInstance,
               calls |-> <<"Instances.Insert">>]
         ELSE IF insert = "opError"
              THEN [err |-> errOperation, instance |-> NilInstance,
                    calls |-> <<"Instances.Insert">>]
              ELSE LET found == FindInstance([ir EXCEPT
                                                 !.NetworkInterface = FALSE],
                                             get)
                   IN  [found EXCEPT
                            !.calls = <<"Instances.Insert">> \o found.calls]

(* ------------------------------- FullSetup ------------------------------ *)

\* func (req *Setup) Validate() error
SetupValidate(r) ==
    IF r.isNil \/ TrimSpace(r.Project) = <<>> THEN errEmptyProject
    ELSE IF TrimSpace(r.Zone) = <<>> THEN errEmptyZone
    ELSE IF r.DomainName = <<>> THEN errEmptyDomainName
    ELSE Nil

\* func (c *Client) generateMachine(req *Setup)
generateMachine(r, insert, get) ==
    CreateInstance([Project |-> r.Project, Zone |-> r.Zone,
                    Name |-> r.MachineName, NetworkInterface |-> TRUE],
                   insert, get)

\* func ipv4AddressesFromInstance(instance *compute.Instance) []string
ipv4AddressesFromInstance(inst) == inst.NetworkIPs

\* func (c *Client) generateMachineAndIPV4Addresses(req *Setup); the error
\* of the FindInstance call is dropped, and a nil instance is dereferenced
\* by ipv4AddressesFromInstance
generateMachineAndIPV4Addresses(r, insert, get, getAgain) ==
    LET made == generateMachine(r, insert, get) IN
    IF made.err # Nil
    THEN [err |-> made.err, addresses |-> <<>>, instance |-> NilInstance,
          calls |-> made.calls, panic |-> FALSE]
    ELSE LET found ==
                 IF Len(made.instance.NetworkIPs) = 0
                 THEN FindInstance([Project |-> r.Project, Zone |-> r.Zone,
                                    Name |-> r.MachineName,
                                    NetworkInterface |-> FALSE], getAgain)
                 ELSE [made EXCEPT !.calls = <<>>]
         IN  IF found.instance.isNil
             THEN [err |-> Nil, addresses |-> <<>>,
                   instance |-> NilInstance,
                   calls |-> made.calls \o found.calls, panic |-> TRUE]
             ELSE [err |-> Nil,
                   addresses |-> ipv4AddressesFromInstance(found.instance),
                   instance |-> found.instance,
                   calls |-> made.calls \o found.calls, panic |-> FALSE]

\* the CNAME records point at the aliases themselves
AliasRecord_selfCanonical(r, alias) ==
    [ZeroRecord EXCEPT !.Type = CName, !.DNSName = alias,
                       !.CanonicalName = alias]

\* &Record{Type: CName, DNSName: alias, CanonicalName: req.DomainName}
AliasRecord(r, alias) ==
    [ZeroRecord EXCEPT !.Type = CName, !.DNSName = alias,
                       !.CanonicalName = r.DomainName]

\* the UpdateRequest built by generateRecordSets: the A record, then one
\* CNAME record per alias
RecordSetsRequest(r, addresses) ==
    [isNil |-> FALSE, Project |-> r.Project, Zone |-> r.Zone,
     Records |->
        <<[ZeroRecord EXCEPT !.Type = AName, !.DNSName = r.DomainName,
                             !.IPV4Addresses = addresses]>>
        \o [i \in 1..Len(r.Aliases) |-> AliasRecord(r, r.Aliases[i])],
     Additions |-> <<>>, Deletions |-> <<>>]

\* func (c *Client) generateRecordSets(req *Setup, ipv4Addresses ...string)
generateRecordSets(r, addresses, remoteOK) ==
    AddRecordSets(RecordSetsRequest(r, addresses), remoteOK)

\* answers of bucketsService().Get(...).Do()
BucketAnswers == {"found", "missing", "error"}

errBucketGet == "bucket lookup failed"
errBlankReaderFunc == "expecting a non-blank reader function"
errEmptyName == "expecting a non-empty name"
errEmptyBucket == "expecting a non-empty bucket"

\* a failed Get is reported to the caller
EnsureBucketExists_returnsGetError(get, insertOK) ==
    IF get = "found"
    THEN [err |-> Nil, bucket |-> "existing", calls |-> <<"Buckets.Get">>]
    ELSE IF get = "error"
         THEN [err |-> errBucketGet, bucket |-> "nil",
               calls |-> <<"Buckets.Get">>]
         ELSE [err |-> IF insertOK THEN Nil ELSE errRemote,
               bucket |-> IF insertOK THEN "inserted" ELSE "nil",
               calls |-> <<"Buckets.Get", "Buckets.Insert">>]

\* func (c *Client) EnsureBucketExists(bc *BucketCheck): the error of Get is
\* dropped, a bucket that Get did not return is inserted
EnsureBucketExists(get, insertOK) ==
    IF get = "found"
    THEN [err |-> Nil, bucket |-> "existing", calls |-> <<"Buckets.Get">>]
    ELSE [err |-> IF insertOK THEN Nil ELSE errRemote,
          bucket |-> IF insertOK THEN "inserted" ELSE "nil",
          calls |-> <<"Buckets.Get", "Buckets.Insert">>]

\* var params *UploadParams = nil
NilUploadParams ==
    [isNil |-> TRUE, hasReader |-> FALSE, Name |-> "", Bucket |-> ""]

\* func (params *UploadParams) Validate() error
UploadParamsValidate(params) ==
    IF params.isNil \/ ~params.hasReader THEN errBlankReaderFunc
    ELSE IF params.Name = "" THEN errEmptyName
    ELSE IF params.Bucket = "" THEN errEmptyBucket
    ELSE Nil

\* func (c *Client) UploadWithParams(params *UploadParams)
UploadWithParams(params, get, insertOK, objectOK) ==
    LET bucket == EnsureBucketExists(get, insertOK) IN
    IF UploadParamsValidate(params) # Nil
    THEN [err |-> UploadParamsValidate(params), calls |-> <<>>]
    ELSE IF bucket.err # Nil
    THEN [err |-> bucket.err, calls |-> bucket.calls]
    ELSE [err |-> IF objectOK THEN Nil ELSE errRemote,
          calls |-> bucket.calls \o <<"Objects.Insert">>]

\* most IPv4 addresses a Setup carries
MaxAddresses == 2

\* most aliases a Setup carries
MaxAliases == 2

Setups ==
    {NilSetup} \cup
    [isNil : {FALSE},
     Project : {<<" ">>, <<"p">>},
     Zone : {<<>>, <<"z">>},
     MachineName : {<<>>, <<"m">>},
     DomainName : {<<>>, <<" ">>, <<"d">>},
     IPV4Addresses : SeqsUpTo({<<"a">>, <<" ">>}, MaxAddresses),
     Aliases : SeqsUpTo({<<"w">>, <<"v">>}, MaxAliases),
     ProxyAddress : {<<>>, <<"x">>}]

SetupInit ==
    /\ ListInit
    /\ DedupIdle
    /\ DnsIdle
    /\ PureIdle
    /\ remote = 1
    /\ emptyPage = 1
    /\ setup \in Setups
    /\ spc = "start"
    /\ ipv4Addresses = <<>>
    /\ instance = NilInstance
    /\ ireq = NilUpdateRequest
    /\ dnsChange = NoDnsOut
    /\ steps = <<>>
    /\ scalls = <<>>
    /\ sresult = NoSetupResult

\* what a step of FullSetup leaves alone
setupFrame == <<streamVars, lockVars, dedupVars, dnsVars, pureVars>>

\* the step is left without a look at its error
StepDone_continue(name, err, next) ==
    /\ steps' = Append(steps, [step |-> name, err |-> err])
    /\ spc' = next
    /\ sresult' = IF next = "returned" /\ err = Nil
                  THEN [resp |-> TRUE, err |-> Nil]
                  ELSE sresult

\* if err != nil { return nil, err } after a step; the last step is
\* followed by return resp, nil
StepDone(name, err, next) ==
    /\ steps' = Append(steps, [step |-> name, err |-> err])
    /\ IF err # Nil
       THEN /\ spc' = "returned"
            /\ sresult' = [resp |-> FALSE, err |-> err]
       ELSE /\ spc' = next
            /\ sresult' = IF next = "returned"
                          THEN [resp |-> TRUE, err |-> Nil]
                          ELSE sresult

\* ipv4Addresses := req.IPV4Addresses; if len(ipv4Addresses) == 0
NeedsMachine(r) == Len(r.IPV4Addresses) = 0

\* if err := req.Validate(); err != nil { return nil, err };
\* ipv4Addresses := req.IPV4Addresses
FullSetupValidate ==
    /\ spc = "start"
    /\ StepDone("validate", SetupValidate(setup),
                IF NeedsMachine(setup) THEN "machine" ELSE "dns")
    /\ ipv4Addresses' = IF SetupValidate(setup) = Nil
                        THEN setup.IPV4Addresses ELSE ipv4Addresses
    /\ UNCHANGED <<setup, instance, ireq, dnsChange, scalls>>
    /\ UNCHANGED setupFrame

\* ipv4Addresses, err = c.generateMachineAndIPV4Addresses(req)
FullSetupMachine(insert, get, getAgain) ==
    /\ spc = "machine"
    /\ LET out == generateMachineAndIPV4Addresses(setup, insert, get,
                                                  getAgain)
       IN  /\ scalls' = scalls \o out.calls
           /\ instance' = out.instance
           /\ IF out.panic
              THEN /\ spc' = "panicked"
                   /\ steps' = Append(steps, [step |-> "machine",
                                              err |-> errNilInstance])
                   /\ UNCHANGED <<ipv4Addresses, sresult>>
              ELSE /\ StepDone("machine", out.err, "dns")
                   /\ ipv4Addresses' = out.addresses
    /\ UNCHANGED <<setup, ireq, dnsChange>>
    /\ UNCHANGED setupFrame

\* dnsChange, err := c.generateRecordSets(req, ipv4Addresses...)
\* ireq holds the records AddRecordSets hands on to toRecordSets, whose
\* rec.Validate() writes the deduplicated list into the record
FullSetupRecordSets(remoteOK) ==
    /\ spc = "dns"
    /\ LET out == generateRecordSets(setup, ipv4Addresses, remoteOK) IN
       /\ ireq' = LET built == RecordSetsRequest(setup, ipv4Addresses) IN
                  [built EXCEPT !.Records = recordsAfterUpdate(
                      [built EXCEPT !.Additions = built.Records]).Additions]
       /\ dnsChange' = out
       /\ scalls' = IF out.created = 1
                    THEN Append(scalls, "Changes.Create") ELSE scalls
       /\ StepDone("dns", out.err, "binary")
    /\ UNCHANGED <<setup, ipv4Addresses, instance>>
    /\ UNCHANGED setupFrame

\* rc, err := frontender.GenerateBinary(...)
FullSetupBinary(ok) ==
    /\ spc = "binary"
    /\ scalls' = Append(scalls, "GenerateBinary")
    /\ StepDone("binary", IF ok THEN Nil ELSE errRemote, "upload")
    /\ UNCHANGED <<setup, ipv4Addresses, instance, ireq, dnsChange>>
    /\ UNCHANGED setupFrame

\* obj, err := c.UploadWithParams(...); return resp, nil
FullSetupUpload(get, insertOK, objectOK) ==
    /\ spc = "upload"
    /\ LET out == UploadWithParams(
                      [isNil |-> FALSE, hasReader |-> TRUE,
                       Name |-> "generated-binary",
                       Bucket |-> "frontender-binaries"],
                      get, insertOK, objectOK)
       IN
       /\ scalls' = scalls \o out.calls
       /\ StepDone("upload", out.err, "returned")
    /\ UNCHANGED <<setup, ipv4Addresses, instance, ireq, dnsChange>>
    /\ UNCHANGED setupFrame

SetupNext ==
    \/ FullSetupValidate
    \/ \E insert \in InsertAnswers : \E get, getAgain \in GetAnswers :
           FullSetupMachine(insert, get, getAgain)
    \/ \E ok \in BOOLEAN : FullSetupRecordSets(ok)
    \/ \E ok \in BOOLEAN : FullSetupBinary(ok)
    \/ \E get \in BucketAnswers : \E insertOK, objectOK \in BOOLEAN :
           FullSetupUpload(get, insertOK, objectOK)

SetupSpec == SetupInit /\ [][SetupNext]_vars

\* the step has run
StepRun(name) == \E i \in 1..Len(steps) : steps[i].step = name

\* the addresses FullSetup is to publish
AddressesToPublish ==
    IF Len(setup.IPV4Addresses) > 0 THEN setup.IPV4Addresses
    ELSE instance.NetworkIPs

\* the addresses of an A record once Record.Validate has run on it
AsValidated(addresses) ==
    IF dedup(addresses) = <<>> THEN addresses ELSE dedup(addresses)

\* C23: the DNS additions FullSetup requests are one A record for DomainName
\* with the IPv4 addresses (those of the request, or those of the generated
\* machine when the request has none), then one CNAME record per alias, in
\* alias order, with DomainName as canonical name; the change sent to the
\* remote carries them in that order, with trailing dots and the addresses
\* as Record.Validate leaves them, and no deletions.
C23_DnsAdditions ==
    StepRun("dns") =>
      /\ ~ireq.isNil
      /\ Len(ireq.Records) = 1 + Len(setup.Aliases)
      /\ ireq.Records[1].Type = AName
      /\ ireq.Records[1].DNSName = setup.DomainName
      /\ RecordSetsRequest(setup, ipv4Addresses).Records[1].IPV4Addresses
            = AddressesToPublish
      /\ ireq.Records[1].IPV4Addresses = AsValidated(AddressesToPublish)
      /\ \A i \in 1..Len(setup.Aliases) :
            /\ ireq.Records[i + 1].Type = CName
            /\ ireq.Records[i + 1].DNSName = setup.Aliases[i]
            /\ ireq.Records[i + 1].CanonicalName = setup.DomainName
      /\ \A i \in 2..Len(ireq.Records) : ireq.Records[i].Type # AName
      /\ dnsChange.created = 1 =>
           /\ dnsChange.sent.Deletions = <<>>
           /\ Len(dnsChange.sent.Additions) = 1 + Len(setup.Aliases)
           /\ dnsChange.sent.Additions[1] =
                [Name |-> ensureHasTrailingDot(setup.DomainName),
                 Type |-> "A", Rrdatas |-> dedup(AddressesToPublish)]
           /\ \A i \in 1..Len(setup.Aliases) :
                dnsChange.sent.Additions[i + 1] =
                  [Name |-> ensureHasTrailingDot(setup.Aliases[i]),
                   Type |-> "CNAME",
                   Rrdatas |-> <<ensureHasTrailingDot(setup.DomainName)>>]

\* the addresses of a generated machine and two aliases have been sent
C23_Witness ==
    /\ dnsChange.created = 1
    /\ dnsChange.err = Nil
    /\ Len(setup.IPV4Addresses) = 0
    /\ Len(instance.NetworkIPs) = 2
    /\ Len(setup.Aliases) = 2
    /\ setup.Aliases[1] # setup.Aliases[2]

InsertCalls ==
    Len(SelectSeq(scalls, LAMBDA c : c = "Instances.Insert"))

\* C26: a Setup that carries a ProxyAddress has no instance created; for a
\* Setup without ProxyAddress exactly one instance is created and its IPv4
\* addresses go into the A record.
C26_MachineOnlyWithoutProxy ==
    /\ setup.ProxyAddress # <<>> => InsertCalls = 0
    /\ (setup.ProxyAddress = <<>> /\ StepRun("dns")) =>
          /\ InsertCalls = 1
          /\ ireq.Records[1].IPV4Addresses = AsValidated(instance.NetworkIPs)

\* the steps FullSetup is to run for the request
ExpectedSteps(r) ==
    <<"validate">>
    \o (IF Len(r.IPV4Addresses) = 0 THEN <<"machine">> ELSE <<>>)
    \o <<"dns", "binary", "upload">>

\* the step a remote call belongs to
StepOfCall(c) ==
    CASE c \in {"Instances.Insert", "Instances.Get"} -> "machine"
      [] c = "Changes.Create" -> "dns"
      [] c = "GenerateBinary" -> "binary"
      [] OTHER -> "upload"

StepIndex(name) == CHOOSE i \in 1..5 : ExpectedSteps(setup)[i] = name

\* C27: FullSetup runs validate, create machine (only when IPV4Addresses is
\* empty), add DNS record sets, generate binary, upload binary, in that
\* order; a step that returns an error is the last one run and FullSetup
\* returns (nil, that error); every remote call belongs to a step that has
\* run, in the order of the steps; a Setup that fails Validate causes no
\* remote call.
C27_StepsInOrder ==
    /\ Len(steps) <= Len(ExpectedSteps(setup))
    /\ \A i \in 1..Len(steps) : steps[i].step = ExpectedSteps(setup)[i]
    /\ \A i \in 1..(Len(steps) - 1) : steps[i].err = Nil
    /\ (Len(steps) >= 1 /\ steps[Len(steps)].err \notin {Nil, errNilInstance})
         => /\ spc = "returned"
            /\ sresult = [resp |-> FALSE, err |-> steps[Len(steps)].err]
    /\ \A k \in 1..Len(scalls) : StepRun(StepOfCall(scalls[k]))
    /\ \A j, k \in 1..Len(scalls) :
          j < k => StepIndex(StepOfCall(scalls[j]))
                     <= StepIndex(StepOfCall(scalls[k]))
    /\ SetupValidate(setup) # Nil => scalls = <<>> /\ Len(steps) <= 1
    /\ (spc = "returned" /\ sresult.resp) =>
          /\ Len(steps) = Len(ExpectedSteps(setup))
          /\ \A i \in 1..Len(steps) : steps[i].err = Nil

\* the binary could not be generated after a machine and the DNS records
\* had been created
C27_Witness ==
    /\ spc = "returned"
    /\ Len(steps) = 4
    /\ steps[4].step = "binary"
    /\ steps[4].err # Nil
    /\ InsertCalls = 1
    /\ dnsChange.created = 1
    /\ sresult.err = errRemote

\* C28: a failed FindInstance after an instance without network interfaces
\* is returned by FullSetup as its error; ipv4AddressesFromInstance is never
\* called with a nil instance.
C28_FindFailureReported ==
    /\ spc # "panicked"
    /\ (StepRun("machine") /\ spc # "returned") => ~instance.isNil

(* ----------------------------- single calls ----------------------------- *)

RecordTypes == {AAAName, AName, CAA, CName, MX, NS, SPF, SRV, TXT}

\* the []string fields of Record
ListFields ==
    {"IPV4Addresses", "IPV6Addresses", "NameServers",
     "CertificateAuthorityAuthorizations", "PreferenceAndMailServers",
     "SPFData", "SRVData", "TXTRecords"}

\* records passed to Record.Validate: any known type, an unknown type or the
\* empty type, with one of its fields set (to nothing, to blanks, to values)
ValidatedRecords ==
    {[ZeroRecord EXCEPT !.Type = t, ![f] = l] :
        t \in RecordTypes \cup {"PTR", ""}, f \in ListFields,
        l \in SeqsUpTo({<<"a">>, <<" ">>}, MaxAddresses)}
    \cup
    {[ZeroRecord EXCEPT !.Type = t, !.CanonicalName = c] :
        t \in RecordTypes \cup {"PTR", ""}, c \in {<<" ">>, <<"c">>}}

\* what a single call leaves alone
pureFrame == <<streamVars, lockVars, dedupVars, dnsVars, setupVars>>

\* err := rec.Validate()
RecordValidateCall ==
    /\ callPc = "input"
    /\ callee = "Record.Validate"
    /\ callOut' = RecordValidate(callArg)
    /\ callPc' = "done"
    /\ UNCHANGED <<callee, callArg>>
    /\ UNCHANGED pureFrame

\* the field a record of the type must carry
RequiredField(t) ==
    CASE t = AAAName -> "IPV6Addresses"
      [] t = AName -> "IPV4Addresses"
      [] t = CAA -> "CertificateAuthorityAuthorizations"
      [] t = MX -> "PreferenceAndMailServers"
      [] t = NS -> "NameServers"
      [] t = SPF -> "SPFData"
      [] t = SRV -> "SRVData"
      [] t = TXT -> "TXTRecords"

\* the error that names the missing field of the type
OwnError(t) ==
    CASE t = AAAName -> errEmptyIPV6Addresses
      [] t = AName -> errEmptyIPV4Addresses
      [] t = CAA -> errEmptyCertificateAuthorityAuthorizations
      [] t = CName -> errBlankCanonicalName
      [] t = MX -> errEmptyPreferenceAndMailServers
      [] t = NS -> errEmptyNameServers
      [] t = SPF -> errEmptySPFData
      [] t = SRV -> errEmptySRVData
      [] t = TXT -> errEmptyTXTRecords

\* the record carries what its type requires
HasRequired(r) ==
    IF r.Type = CName THEN TrimSpace(r.CanonicalName) # <<>>
    ELSE \E i \in 1..Len(r[RequiredField(r.Type)]) :
            TrimSpace(r[RequiredField(r.Type)][i]) # <<>>

\* C31: Record.Validate rejects a record of unknown type; for a known type
\* it succeeds exactly when the field the type requires is non-empty after
\* trimming and deduplication (CNAME: non-blank CanonicalName), and when it
\* fails it returns the error of that type's own field.
C31_OwnFieldError ==
    (callPc = "done" /\ callee = "Record.Validate") =>
        IF callArg.Type \notin RecordTypes
        THEN callOut.err = errUnknownRecordType
        ELSE /\ callOut.err = Nil <=> HasRequired(callArg)
             /\ callOut.err # Nil => callOut.err = OwnError(callArg.Type)

(* ----------------------------- machine types ---------------------------- *)

errInvalidZeroCount == "expecting 1 or an even CPU count upto 32"
errMemoryMultipleOf256 == "memory must be a multiple of 256"
errEmptyType == "expecting a non-empty type"

N1Standard1 == "n1-standard-1"

\* largest CPUCount tried
MaxCPUCount == 34

\* largest MemoryMBs tried, in units of 256
MaxMemoryUnits == 2

\* Go's integer division, which truncates toward zero
TruncDiv(a, b) == IF a >= 0 THEN a \div b ELSE -((-a) \div b)

\* func (mt *MachineType) validateAsStandardMachine() error
validateAsStandardMachine(mt) ==
    IF mt.Type = "" THEN errEmptyType ELSE Nil

\* every CPU count from 1 to 32 is taken
validateAsCustomMachine_anyCount(mt) ==
    IF mt.CPUCount <= 0 \/ mt.CPUCount > 32 THEN errInvalidZeroCount
    ELSE IF TruncDiv(mt.MemoryMBs, 256) * 256 # mt.MemoryMBs
         THEN errMemoryMultipleOf256
         ELSE Nil

\* func (mt *MachineType) validateAsCustomMachine() error; 1&mt.CPUCount is
\* taken of a positive CPUCount
validateAsCustomMachine(mt) ==
    IF mt.CPUCount <= 0 \/ mt.CPUCount > 32 THEN errInvalidZeroCount
    ELSE IF ~(mt.CPUCount = 1 \/ mt.CPUCount % 2 = 0)
         THEN errInvalidZeroCount
         ELSE IF TruncDiv(mt.MemoryMBs, 256) * 256 # mt.MemoryMBs
              THEN errMemoryMultipleOf256
              ELSE Nil

\* func (mt *MachineType) Validate() error: the first validator that
\* returns nil ends the loop, else the error of the last one is returned
MachineTypeValidate(mt) ==
    IF validateAsCustomMachine(mt) = Nil THEN Nil
    ELSE validateAsStandardMachine(mt)

\* func (mt *MachineType) standardRoute() string
standardRoute(mt) == "/machineTypes/" \o mt.Type

\* func (mt *MachineType) customRoute() string
customRoute(mt) ==
    "/machineTypes/custom-" \o ToString(mt.CPUCount) \o "-"
        \o ToString(mt.MemoryMBs)

\* func (mt *MachineType) canMakeCustomMachine() bool
canMakeCustomMachine(mt) == validateAsCustomMachine(mt) = Nil

\* func (mt *MachineType) route() string
route(mt) ==
    IF canMakeCustomMachine(mt) THEN customRoute(mt) ELSE standardRoute(mt)

MachineTypes ==
    [CPUCount : -1..MaxCPUCount,
     MemoryMBs : {k * 256 + d : k \in -1..MaxMemoryUnits, d \in {0, 1, 255}},
     Type : {"", N1Standard1}]

\* err := mt.Validate(); mt.route()
MachineTypeCall ==
    /\ callPc = "input"
    /\ callee = "MachineType.Validate"
    /\ callOut' = [err |-> MachineTypeValidate(callArg),
                   route |-> route(callArg)]
    /\ callPc' = "done"
    /\ UNCHANGED <<callee, callArg>>
    /\ UNCHANGED pureFrame

\* CPUCount is 1 or an even number up to 32, MemoryMBs a multiple of 256
CustomValid(mt) ==
    /\ mt.CPUCount \in {1} \cup {2 * k : k \in 1..16}
    /\ mt.MemoryMBs % 256 = 0

\* C32: MachineType.Validate succeeds exactly when the value is a valid
\* custom machine or has a non-empty Type; a MachineType that passes gets
\* the route custom-<CPUCount>-<MemoryMBs> when it is a valid custom machine
\* and the standard route of its non-empty Type otherwise.
C32_ValidateAndRoute ==
    (callPc = "done" /\ callee = "MachineType.Validate") =>
        /\ callOut.err = Nil <=> (CustomValid(callArg) \/ callArg.Type # "")
        /\ callOut.err = Nil =>
             IF CustomValid(callArg)
             THEN callOut.route =
                    "/machineTypes/custom-" \o ToString(callArg.CPUCount)
                        \o "-" \o ToString(callArg.MemoryMBs)
             ELSE /\ callArg.Type # ""
                  /\ callOut.route = "/machineTypes/" \o callArg.Type

\* a custom machine with a Type passed and got the custom route
C32_Witness ==
    /\ callPc = "done"
    /\ callee = "MachineType.Validate"
    /\ callOut.err = Nil
    /\ callArg.CPUCount = 32
    /\ callArg.MemoryMBs = 512
    /\ callArg.Type = N1Standard1
    /\ callOut.route = "/machineTypes/custom-32-512"

(* ------------------------------- buckets -------------------------------- *)

UploadParamsSet ==
    {NilUploadParams} \cup
    [isNil : {FALSE}, hasReader : BOOLEAN, Name : {"", "n"},
     Bucket : {"", "b"}]

\* c.EnsureBucketExists(bc), with the answers of Get and Insert kept
EnsureBucketCall(get, insertOK) ==
    /\ callPc = "input"
    /\ callee = "EnsureBucketExists"
    /\ callOut' = [out |-> EnsureBucketExists(get, insertOK), get |-> get,
                   insertOK |-> insertOK]
    /\ callPc' = "done"
    /\ UNCHANGED <<callee, callArg>>
    /\ UNCHANGED pureFrame

\* c.UploadWithParams(params)
UploadCall(get, insertOK, objectOK) ==
    /\ callPc = "input"
    /\ callee = "UploadWithParams"
    /\ callOut' = UploadWithParams(callArg, get, insertOK, objectOK)
    /\ callPc' = "done"
    /\ UNCHANGED <<callee, callArg>>
    /\ UNCHANGED pureFrame

\* the receivers and arguments of the single calls
ArgsOf(fn) ==
    CASE fn = "Record.Validate" -> ValidatedRecords
      [] fn = "MachineType.Validate" -> MachineTypes
      [] fn = "EnsureBucketExists" ->
            [Project : {"p"}, Bucket : {"b"}, Public : BOOLEAN]
      [] fn = "UploadWithParams" -> UploadParamsSet

PureInit ==
    /\ ListInit
    /\ DedupIdle
    /\ DnsIdle
    /\ SetupIdle
    /\ remote = 1
    /\ emptyPage = 1
    /\ callee \in {"Record.Validate", "MachineType.Validate",
                   "EnsureBucketExists", "UploadWithParams"}
    /\ callArg \in ArgsOf(callee)
    /\ callOut = <<>>
    /\ callPc = "input"

PureNext ==
    \/ RecordValidateCall
    \/ MachineTypeCall
    \/ \E get \in BucketAnswers : \E insertOK \in BOOLEAN :
           EnsureBucketCall(get, insertOK)
    \/ \E get \in BucketAnswers : \E insertOK, objectOK \in BOOLEAN :
           UploadCall(get, insertOK, objectOK)

PureSpec == PureInit /\ [][PureNext]_vars

\* C33: EnsureBucketExists returns the bucket Get returned without an
\* Insert; when Get returned none it issues exactly one Insert and returns
\* that call's bucket or error; the error of Get is never returned, so a
\* failed Get leads to an Insert as well.  UploadWithParams makes no remote
\* call when its params fail Validate.
C33_BucketEnsured ==
    /\ (callPc = "done" /\ callee = "EnsureBucketExists") =>
          /\ callOut.out.err # errBucketGet
          /\ IF callOut.get = "found"
             THEN callOut.out = [err |-> Nil, bucket |-> "existing",
                                 calls |-> <<"Buckets.Get">>]
             ELSE /\ callOut.out.calls = <<"Buckets.Get", "Buckets.Insert">>
                  /\ callOut.insertOK =>
                       callOut.out.err = Nil
                       /\ callOut.out.bucket = "inserted"
                  /\ ~callOut.insertOK =>
                       callOut.out.err = errRemote
                       /\ callOut.out.bucket = "nil"
    /\ (callPc = "done" /\ callee = "UploadWithParams"
        /\ UploadParamsValidate(callArg) # Nil) =>
          /\ callOut.calls = <<>>
          /\ callOut.err = UploadParamsValidate(callArg)

\* a failed Get was followed by an Insert whose bucket was returned
C33_Witness ==
    /\ callPc = "done"
    /\ callee = "EnsureBucketExists"
    /\ callOut.get = "error"
    /\ callOut.out.err = Nil
    /\ callOut.out.bucket = "inserted"
    /\ callOut.out.calls = <<"Buckets.Get", "Buckets.Insert">>
====
